---- MODULE Spec2Model ----
(***************************************************************************)
(* Model of the finance pipeline of record-label-manager: the ingest       *)
(* (canonicalize + metadata sidecar), the source registry, the revenue     *)
(* normalizer with its deduplicating writer, the rebuild of distribution   *)
(* events from the source spreadsheets, the payout calculator and the      *)
(* warehouse builder.                                                      *)
(*                                                                         *)
(* Text cells are sequences of one-character strings, so that the          *)
(* conversions (decimal canonicalization, Decimal(), int(float())) are     *)
(* computed character by character as the code computes them.  Money is    *)
(* kept in hundredths.  sha256 is modelled as an injective tag of the      *)
(* hashed content.  File mtime and registered_at are not modelled: no      *)
(* operation reads them back.  There is one label.                         *)
(***************************************************************************)
EXTENDS Integers, Sequences, FiniteSets, TLC

\* ------------------------------------------------------------------ bounds
MaxWrites == 2        \* raw statement files dropped into the source tree
MaxMeta == 3          \* entries a meta.json sidecar may accumulate
MaxSourceFiles == 4   \* SourceFile records
MaxBatches == 2       \* normalization runs (ImportBatch records)
MaxBuilds == 2        \* warehouse builds

\* --------------------------------------------------------- program constants
CorrectionMinBytes == 10000

NULL == "NULL"

\* --------------------------------------------------------------- utilities
RECURSIVE SeqMap(_, _)
\* [Op(x) for x in s] for the cell rewrite of the canonicalizer
SeqMap(s, from) ==
  IF s = <<>> THEN <<>>
  ELSE <<(IF Head(s) = from.a THEN from.b ELSE Head(s))>> \o SeqMap(Tail(s), from)

RECURSIVE SeqRemove(_, _)
\* str.replace(ch, '')
SeqRemove(s, ch) ==
  IF s = <<>> THEN <<>>
  ELSE (IF Head(s) = ch THEN <<>> ELSE <<Head(s)>>) \o SeqRemove(Tail(s), ch)

\* str.replace(a, b) for one-character a and b
Replace(s, a, b) == SeqMap(s, [a |-> a, b |-> b])

Digits == {"0", "1", "2", "3", "4", "5", "6", "7", "8", "9"}

DigitVal(c) ==
  CASE c = "0" -> 0 [] c = "1" -> 1 [] c = "2" -> 2 [] c = "3" -> 3 [] c = "4" -> 4
    [] c = "5" -> 5 [] c = "6" -> 6 [] c = "7" -> 7 [] c = "8" -> 8 [] c = "9" -> 9

RECURSIVE DigitsVal(_)
\* value of a sequence of digits, most significant first
DigitsVal(s) ==
  IF s = <<>> THEN 0 ELSE DigitsVal(SubSeq(s, 1, Len(s) - 1)) * 10 + DigitVal(s[Len(s)])

\* the no-break space U+00A0, one character
NBSP == "<nbsp>"

\* the characters str.strip() takes off: the blank and, as for every str of
\* Python 3, the no-break space
Whitespace == {" ", NBSP}

\* str.strip()
RECURSIVE LStrip(_)
LStrip(s) == IF s # <<>> /\ Head(s) \in Whitespace THEN LStrip(Tail(s)) ELSE s
RECURSIVE RStrip(_)
RStrip(s) ==
  IF s # <<>> /\ s[Len(s)] \in Whitespace THEN RStrip(SubSeq(s, 1, Len(s) - 1)) ELSE s
Strip(s) == RStrip(LStrip(s))

\* An unsigned decimal literal: digits with at most one '.', at least one digit.
IsUnsignedDecimal(s) ==
  /\ \A i \in 1..Len(s) : s[i] \in Digits \cup {"."}
  /\ \E i \in 1..Len(s) : s[i] \in Digits
  /\ Cardinality({i \in 1..Len(s) : s[i] = "."}) <= 1

\* Hundredths denoted by an unsigned decimal literal (digits beyond the second
\* decimal place are cut: the statements carry two).
UnsignedHundredths(s) ==
  LET dots == {i \in 1..Len(s) : s[i] = "."}
      p    == IF dots = {} THEN Len(s) + 1 ELSE CHOOSE i \in dots : TRUE
      ip   == SubSeq(s, 1, p - 1)
      fp   == SubSeq(s, p + 1, Len(s))
      f2   == SubSeq(fp \o <<"0", "0">>, 1, 2)
  IN  DigitsVal(ip) * 100 + DigitsVal(f2)

\* decimal.Decimal(text): [ok, val]; not ok stands for decimal.InvalidOperation,
\* which is an ArithmeticError, not a ValueError.
ParseDecimal(text) ==
  LET t    == Strip(text)
      neg  == t # <<>> /\ Head(t) = "-"
      body == IF t # <<>> /\ Head(t) \in {"-", "+"} THEN Tail(t) ELSE t
  IN  IF IsUnsignedDecimal(body)
      THEN [ok |-> TRUE,
            val |-> IF neg THEN 0 - UnsignedHundredths(body) ELSE UnsignedHundredths(body)]
      ELSE [ok |-> FALSE, val |-> 0]

\* int(float(text)): [ok, val]; not ok stands for ValueError.
ParseIntFloat(text) ==
  LET d == ParseDecimal(text)
  IN  IF d.ok
      THEN [ok |-> TRUE, val |-> IF d.val >= 0 THEN d.val \div 100 ELSE 0 - ((0 - d.val) \div 100)]
      ELSE [ok |-> FALSE, val |-> 0]

\* int(text): [ok, val]; a '.' is a ValueError
ParseInt(text) ==
  LET t    == Strip(text)
      neg  == t # <<>> /\ Head(t) = "-"
      body == IF t # <<>> /\ Head(t) \in {"-", "+"} THEN Tail(t) ELSE t
  IN  IF body # <<>> /\ \A i \in 1..Len(body) : body[i] \in Digits
      THEN [ok |-> TRUE, val |-> IF neg THEN 0 - DigitsVal(body) ELSE DigitsVal(body)]
      ELSE [ok |-> FALSE, val |-> 0]

\* ------------------------------------------------------ format canonicalizer
\* converters._looks_like_number
LooksLikeNumber(text) ==
  LET t == Strip(text)
  IN  /\ text # <<>>
      /\ \E i \in 1..Len(t) : t[i] \in Digits
      /\ \A i \in 1..Len(t) : t[i] \in Digits \cup {",", ".", "-"}

\* the cell rewrite of converters.normalize_delimiter_and_decimal
NormalizeCell(cell, decimal_comma_to_dot) ==
  IF decimal_comma_to_dot /\ LooksLikeNumber(cell)
  THEN Replace(Replace(cell, NBSP, " "), ",", ".")
  ELSE cell


\* ------------------------------------------------------------ source tree
\* A raw statement file is known by what the code reads off its name:
\* the period _infer_period_from_name finds (<<>> when neither pattern matches),
\* the statement type the "_rs_" / "_tk_" tests give ("none" when neither),
\* whether the name holds "correction"/"corrigido", whether it ends in
\* "__converted.csv".
FileIds == {"ZEB_RS_2024-Q1.csv", "ZEB_RS_2024-Q1_correction.csv", "bandcamp_sales.csv"}
DistFileIds == {"ZEB_RS_2024-Q1.csv", "ZEB_RS_2024-Q1_correction.csv"}
BandcampFileId == "bandcamp_sales.csv"

NameInfo(f) ==
  CASE f = "ZEB_RS_2024-Q1.csv" ->
         [period |-> <<2024, 1>>, kind |-> "royalty", corr |-> FALSE, conv |-> FALSE]
    [] f = "ZEB_RS_2024-Q1_correction.csv" ->
         [period |-> <<2024, 1>>, kind |-> "royalty", corr |-> TRUE, conv |-> FALSE]
    [] f = "ZEB_TK_2024-Q1.csv" ->
         [period |-> <<2024, 1>>, kind |-> "encoding", corr |-> FALSE, conv |-> FALSE]
    [] f = "ZEB_RS_2024-Q1__converted.csv" ->
         [period |-> <<2024, 1>>, kind |-> "royalty", corr |-> FALSE, conv |-> TRUE]
    [] f = "ZEB_RS_latest.csv" ->
         [period |-> <<>>, kind |-> "royalty", corr |-> FALSE, conv |-> FALSE]
    [] OTHER ->
         [period |-> <<>>, kind |-> "none", corr |-> FALSE, conv |-> FALSE]

Periods == {<<2024, 1>>}
StatementTypes == {"royalty", "encoding"}
Groups == Periods \X StatementTypes

\* a file that exists is <<rows>>; one that does not is <<>>
NoFile == <<>>
File(rows) == <<rows>>
RowsOf(file) == file[1]

\* a NULL date, and the period of a statement that has none ("all")
NoDate == <<>>
AllPeriods == <<>>

\* cells
C_2024_01 == <<"2", "0", "2", "4", "-", "0", "1">>
C_2024_02 == <<"2", "0", "2", "4", "-", "0", "2">>
C_10 == <<"1", "0">>
C_3 == <<"3">>
C_5c00 == <<"5", ",", "0", "0">>
C_4c00 == <<"4", ",", "0", "0">>
C_2c50 == <<"2", ",", "5", "0">>
C_empty == <<>>

\* Zebralution royalty rows as exported (';' delimited, comma decimals)
ZebA == [Period |-> C_2024_01, Sales |-> C_10, Rev |-> C_5c00, Net |-> C_4c00]
ZebB == [Period |-> C_2024_02, Sales |-> C_3, Rev |-> C_2c50, Net |-> C_empty]

\* the statement contents the environment may drop (a file's data rows, in order)
DistContents == {<<ZebA>>, <<ZebA, ZebA>>, <<ZebA, ZebB>>}

C_date == <<"1", "/", "1", "5", "/", "2", "0", "2", "4">>
C_7d00 == <<"7", ".", "0", "0">>
C_8d00 == <<"8", ".", "0", "0">>
C_1 == <<"1">>

BcA == [date |-> C_date, amount |-> C_7d00, total |-> C_8d00, quantity |-> C_1,
        currency |-> "USD", item_type |-> "track"]
BcNoDate == [date |-> C_empty, amount |-> C_7d00, total |-> C_8d00, quantity |-> C_1,
             currency |-> "USD", item_type |-> "track"]

BandcampContents == {<<BcA>>, <<BcA, BcNoDate>>}

ContentsFor(f) == IF f = BandcampFileId THEN BandcampContents ELSE DistContents

\* st_size of a file with these rows (a row of the model stands for 6000 bytes,
\* so that one-row statements stay under CorrectionMinBytes and longer ones pass it)
Bytes(rows) == Len(rows) * 6000

\* registry.compute_sha256: the digest identifies the bytes
ComputeSha256(rows) == <<"sha256", rows>>

VARIABLES
  disk,           \* raw file id -> rows, or NoFile
  canonDist,      \* group -> rows of distribution/canonical/<year>/<q>/<type>.csv, or NoFile
  canonBandcamp,  \* rows of bandcamp/canonical/bandcamp_all.csv, or NoFile
  metaDist,       \* period -> entries of distribution/canonical/<year>/<q>/meta.json
  metaBandcamp,   \* entries of bandcamp/canonical/meta.json
  sourceFiles,    \* finances_sourcefile, by id
  events,         \* finances_revenueevent
  batches,        \* finances_importbatch, by id
  writes,         \* raw files dropped so far
  normRuns,       \* committed normalization runs in a row over the source files and
                  \* canonical files as they are now (0: none; counted up to 2)
  normReport,     \* what finances_normalize wrote, when it is the command that ran
                  \* last and the source tree is as it left it: <<record>>, else <<>>
  payoutRuns,     \* finances_payoutrun, by id
  payoutLines,    \* finances_payoutline, in creation order
  artists,        \* names in api_artist
  payoutOut,      \* what the last finances_payout invocation did: <<>> or <<record>>
  rawBandcamp,    \* raw.bandcamp_event_raw
  stagingDist,    \* staging.distribution_event
  factRevenue,    \* dw.fact_revenue as committed, in insertion order
  fxCache,        \* currency -> <<>> or <<rate>>: the exchange_rate_<ccy>_BRL cache keys
  dwPc,           \* the statement build_dw_revenue is about to execute ("idle": not running)
  dwRates,        \* the rates the running build looked up
  dwBefore,       \* dw.fact_revenue as it was when the running or last build started
  dwBuilds,       \* the builds that ended, oldest first: <<totals>> of one that
                  \* completed, <<>> of one that failed
  dwRead,         \* what a reader saw last since the last build started: <<>> or <<record>>
  procs           \* command runs in flight at the same time, by process: the open
                  \* transaction of each (NoProcs when commands run one at a time)

pipeVars == <<disk, canonDist, canonBandcamp, metaDist, metaBandcamp, sourceFiles,
              events, batches, writes, normRuns, normReport>>
payoutVars == <<payoutRuns, payoutLines, artists, payoutOut>>
dwVars == <<rawBandcamp, stagingDist, factRevenue, fxCache, dwPc, dwRates, dwBefore,
            dwBuilds, dwRead>>
concVars == <<procs>>
vars == <<pipeVars, payoutVars, dwVars, concVars>>

\* ------------------------------------------------------------------ ingest
\* etl.ingest.build_canonical_distribution -> normalize_delimiter_and_decimal
CanonDistRow(row, decimal_comma_to_dot) ==
  [c \in DOMAIN row |-> NormalizeCell(row[c], decimal_comma_to_dot)]

BuildCanonicalDistribution(rows, decimal_comma_to_dot) ==
  [i \in 1..Len(rows) |-> CanonDistRow(rows[i], decimal_comma_to_dot)]

\* cli.ingest.ingest_bandcamp -> normalize_delimiter_and_decimal(decimal_comma_to_dot=False)
CanonBandcampRow(row) ==
  [date |-> NormalizeCell(row.date, FALSE), amount |-> NormalizeCell(row.amount, FALSE),
   total |-> NormalizeCell(row.total, FALSE), quantity |-> NormalizeCell(row.quantity, FALSE),
   currency |-> row.currency, item_type |-> row.item_type]

BuildCanonicalBandcamp(rows) == [i \in 1..Len(rows) |-> CanonBandcampRow(rows[i])]

\* cli.ingest.ingest_distribution, lines 42-64: the candidates of a group
Candidates(dsk, g) ==
  {f \in (DOMAIN dsk) \ {BandcampFileId} : /\ dsk[f] # NoFile
                       /\ NameInfo(f).kind = g[2]
                       /\ NameInfo(f).period = g[1]}

\* cli.ingest.ingest_distribution.score
Score(dsk, f) ==
  LET is_corr == NameInfo(f).corr /\ Bytes(RowsOf(dsk[f])) > CorrectionMinBytes
  IN  <<IF is_corr THEN 1 ELSE 0, Bytes(RowsOf(dsk[f])), IF NameInfo(f).conv THEN 1 ELSE 0>>

\* tuple order of Python
ScoreGE(a, b) ==
  \/ a[1] > b[1]
  \/ a[1] = b[1] /\ a[2] > b[2]
  \/ a[1] = b[1] /\ a[2] = b[2] /\ a[3] >= b[3]

\* a choice that takes any candidate of the group
AnyCandidate(dsk, g) == Candidates(dsk, g)

\* sorted(paths, key=score, reverse=True)[0]: a candidate of maximal score; among
\* equal scores the directory listing order decides, which the code does not fix
Best(dsk, g) ==
  {f \in Candidates(dsk, g) : \A h \in Candidates(dsk, g) : ScoreGE(Score(dsk, f), Score(dsk, h))}

DistMeta(dsk, g, f) ==
  [path |-> f, sha256 |-> ComputeSha256(RowsOf(dsk[f])), bytes |-> Bytes(RowsOf(dsk[f])),
   source |-> "distribution", statement_type |-> g[2], period |-> g[1],
   correction_of |-> IF NameInfo(f).corr THEN "supersedes" ELSE NULL]

BandcampMeta(dsk) ==
  [path |-> BandcampFileId, sha256 |-> ComputeSha256(RowsOf(dsk[BandcampFileId])),
   bytes |-> Bytes(RowsOf(dsk[BandcampFileId])), source |-> "bandcamp",
   statement_type |-> "bandcamp", period |-> AllPeriods, correction_of |-> NULL]

\* registry.write_meta_json: merge append
WriteMetaJson(existing, entry) == Append(existing, entry)

ActiveGroups(dsk) == {g \in Groups : Candidates(dsk, g) # {}}

\* the write_meta_json calls of one ingest_distribution run into the sidecar of
\* one period directory (a royalty group is written before an encoding group)
AppendGroups(existing, dsk, chosen, p) ==
  LET roy  == <<p, "royalty">>
      enc  == <<p, "encoding">>
      m1   == IF roy \in ActiveGroups(dsk)
              THEN WriteMetaJson(existing, DistMeta(dsk, roy, chosen[roy])) ELSE existing
  IN  IF enc \in ActiveGroups(dsk)
      THEN WriteMetaJson(m1, DistMeta(dsk, enc, chosen[enc])) ELSE m1

\* --------------------------------------------------------- source registry
\* finances_ingest._register_from_meta, lines 112-125
PeriodStart(period) ==
  IF period = AllPeriods THEN NoDate ELSE <<period[1], (period[2] - 1) * 3 + 1, 1>>

PeriodEnd(period) ==
  IF period = AllPeriods THEN NoDate
  ELSE IF period[2] = 4 THEN <<period[1] + 1, 1, 1>>
  ELSE <<period[1], (period[2] - 1) * 3 + 4, 1>>

\* a foreign key is <<id>>, or NoRef when NULL
NoRef == <<>>

\* SourceFile.objects.create: the record gets the next id; correction_of is never passed
NewSourceFile(sfs, ds, path, sha, bytes, pstart, pend, stype) ==
  Append(sfs, [id |-> Len(sfs) + 1, datasource |-> ds, path |-> path, sha256 |-> sha,
               bytes |-> bytes, period_start |-> pstart, period_end |-> pend,
               statement_type |-> stype, correction_of |-> NoRef])

\* a plain create where the code looks the record up first
AlwaysCreateSourceFile(sfs, ds, m) ==
  NewSourceFile(sfs, ds, m.path, m.sha256, m.bytes,
                PeriodStart(m.period), PeriodEnd(m.period), m.statement_type)

\* SourceFile.objects.get_or_create(datasource, label, path, sha256, defaults=...)
GetOrCreateSourceFile(sfs, ds, m) ==
  IF \E i \in 1..Len(sfs) :
       sfs[i].datasource = ds /\ sfs[i].path = m.path /\ sfs[i].sha256 = m.sha256
  THEN sfs
  ELSE NewSourceFile(sfs, ds, m.path, m.sha256, m.bytes,
                     PeriodStart(m.period), PeriodEnd(m.period), m.statement_type)

RECURSIVE RegisterFromMeta(_, _, _)
\* finances_ingest._register_from_meta: every entry of one meta.json, in order
RegisterFromMeta(sfs, ds, entries) ==
  IF entries = <<>> THEN sfs
  ELSE RegisterFromMeta(GetOrCreateSourceFile(sfs, ds, Head(entries)), ds, Tail(entries))

RECURSIVE RegisterDist(_, _, _)
RegisterDist(sfs, md, ps) ==
  IF ps = {} THEN sfs
  ELSE LET p == CHOOSE x \in ps : TRUE
       IN  RegisterDist(RegisterFromMeta(sfs, "distribution", md[p]), md, ps \ {p})

\* finances_ingest.register_source_files: the bandcamp sidecar, then every
\* distribution sidecar
RegisterSourceFiles(sfs, mb, md) ==
  RegisterDist(RegisterFromMeta(sfs, "bandcamp", mb), md, Periods)

\* -------------------------------------------------------- revenue normalizer
RECURSIVE SplitBy(_, _)
\* str.split(ch)
SplitBy(s, ch) ==
  LET hits == {i \in 1..Len(s) : s[i] = ch}
  IN  IF hits = {} THEN <<s>>
      ELSE LET i == CHOOSE x \in hits : \A y \in hits : x <= y
           IN  <<SubSeq(s, 1, i - 1)>> \o SplitBy(SubSeq(s, i + 1, Len(s)), ch)

IsLeap(y) == (y % 4 = 0 /\ y % 100 # 0) \/ y % 400 = 0

DaysIn(y, m) ==
  IF m = 2 THEN (IF IsLeap(y) THEN 29 ELSE 28)
  ELSE IF m \in {4, 6, 9, 11} THEN 30 ELSE 31

\* datetime(y, m, d) raises ValueError unless the date exists
ValidDate(y, m, d) == y \in 1..9999 /\ m \in 1..12 /\ d \in 1..DaysIn(y, m)

\* a row hash salted with the id of the running import batch
ComputeRowHashPerBatch(sf, row) == <<"row_hash", sf.id, row, Len(batches)>>

\* finances_normalize.compute_row_hash: sha256 of "<source_file.id>:<row>"
ComputeRowHash(sf, row) == <<"row_hash", sf.id, row>>

\* finances_normalize.find_canonical_file
FindCanonicalFile(sf, cd, cb) ==
  IF sf.datasource = "bandcamp" THEN cb
  ELSE IF sf.datasource = "distribution" /\ sf.period_start # NoDate
  THEN LET g == <<<<sf.period_start[1], (sf.period_start[2] - 1) \div 3 + 1>>, sf.statement_type>>
       IN  IF g \in Groups THEN cd[g] ELSE NoFile
  ELSE NoFile

\* A row handler returns [kind, event]: "event" (a RevenueEvent to create), "none"
\* (it returned None) or "raise" (an exception left it).
NoEvent == [kind |-> "none"]
Raised == [kind |-> "raise"]

\* RevenueEvent.store is nullable; isrc, track_artist_name and track_title
\* are blank unless the creator sets them
NoStore == "NULL"

\* finances_normalize.process_bandcamp_row
ProcessBandcampRow(sf, row, row_hash) ==
  LET date_str == Strip(row.date)
      parts    == SplitBy(SplitBy(date_str, " ")[1], "/")
      mdy      == [i \in 1..3 |-> ParseInt(parts[i])]
      dateOk   == /\ Len(parts) = 3
                  /\ \A i \in 1..3 : mdy[i].ok
                  /\ ValidDate(mdy[3].val, mdy[1].val, mdy[2].val)
      netTxt   == SeqRemove(SeqRemove(row.amount, "$"), ",")
      grossTxt == SeqRemove(SeqRemove(row.total, "$"), ",")
      net      == ParseDecimal(IF netTxt = <<>> THEN <<"0">> ELSE netTxt)
      gross    == ParseDecimal(IF grossTxt = <<>> THEN <<"0">> ELSE grossTxt)
      qty      == ParseInt(IF row.quantity = <<>> THEN <<"0">> ELSE row.quantity)
  IN  IF date_str = <<>> THEN NoEvent
      ELSE IF ~dateOk THEN NoEvent
      ELSE IF ~net.ok \/ ~gross.ok THEN Raised
      ELSE [kind |-> "event",
            event |-> [source_file |-> sf.id,
                       occurred_at |-> <<mdy[3].val, mdy[1].val, mdy[2].val>>,
                       platform |-> "Bandcamp",
                       currency |-> row.currency,
                       product_type |-> row.item_type,
                       quantity |-> IF qty.ok THEN qty.val ELSE 0,
                       gross_amount |-> IF qty.ok THEN gross.val ELSE 0,
                       net_amount |-> IF qty.ok THEN net.val ELSE 0,
                       net_amount_base |-> IF qty.ok THEN net.val ELSE 0,
                       base_ccy |-> "USD",
                       store |-> NoStore,
                       isrc |-> <<>>,
                       track_artist_name |-> <<>>,
                       track_title |-> <<>>,
                       row_hash |-> row_hash]]

\* finances_normalize.extract_decimal over the one candidate column the row has:
\* Decimal() raising InvalidOperation is not caught by except (ValueError, TypeError)
ExtractDecimal(cell) ==
  IF cell = <<>> THEN [ok |-> TRUE, val |-> 0]
  ELSE ParseDecimal(Replace(SeqRemove(cell, " "), ",", "."))

\* finances_normalize.extract_integer
ExtractInteger(cell) ==
  IF cell # <<>> /\ ParseIntFloat(cell).ok THEN ParseIntFloat(cell).val ELSE 0

\* finances_normalize.process_distribution_row
ProcessDistributionRow(sf, row, row_hash) ==
  LET gross == ExtractDecimal(row.Rev)
      net0  == ExtractDecimal(row.Net)
      net   == IF net0.val = 0 THEN gross.val ELSE net0.val
  IN  IF ~gross.ok \/ ~net0.ok THEN Raised
      ELSE IF gross.val = 0 /\ net = 0 THEN NoEvent
      ELSE [kind |-> "event",
            event |-> [source_file |-> sf.id,
                       occurred_at |-> sf.period_start,
                       platform |-> "Distribution",
                       currency |-> "EUR",
                       product_type |-> "digital",
                       quantity |-> ExtractInteger(row.Sales),
                       gross_amount |-> gross.val,
                       net_amount |-> net,
                       net_amount_base |-> net,
                       base_ccy |-> "EUR",
                       store |-> NoStore,
                       isrc |-> <<>>,
                       track_artist_name |-> <<>>,
                       track_title |-> <<>>,
                       row_hash |-> row_hash]]

\* RevenueEvent.objects.filter(row_hash=row_hash).exists()
RowHashExists(evs, row_hash) == \E e \in evs : e.row_hash = row_hash

\* an update_or_create keyed on the business fields instead of a create
UpdateOrCreateRevenueEvent(evs, e) ==
  [ok |-> TRUE,
   evs |-> {x \in evs : ~(/\ x.platform = e.platform /\ x.occurred_at = e.occurred_at
                           /\ x.quantity = e.quantity /\ x.net_amount = e.net_amount)}
           \cup {e}]

\* RevenueEvent.objects.create under the unique index on row_hash:
\* [ok, evs]; not ok is the IntegrityError
CreateRevenueEvent(evs, e) ==
  IF \E x \in evs : x.row_hash = e.row_hash
  THEN [ok |-> FALSE, evs |-> evs]
  ELSE [ok |-> TRUE, evs |-> evs \cup {e}]

\* One pass of the loop of process_canonical_file.  tx = [evs, broken, records,
\* warnings, report]: the events the open transaction sees; whether a database
\* error has marked it for rollback (every later query then raises
\* TransactionManagementError, which the row's except Exception swallows like
\* any other); records_count of the file at hand; the rows of the file at hand
\* that ended in the except branch ("Error processing row ..."); and the lines
\* written for the files that are done.
ProcessRow(tx, sf, row, force) ==
  LET row_hash == ComputeRowHash(sf, row)
      r == IF sf.datasource = "bandcamp" THEN ProcessBandcampRow(sf, row, row_hash)
           ELSE ProcessDistributionRow(sf, row, row_hash)
  IN  IF tx.broken THEN [tx EXCEPT !.warnings = @ + 1]
      ELSE IF ~force /\ RowHashExists(tx.evs, row_hash) THEN tx
      ELSE IF r.kind = "raise" THEN [tx EXCEPT !.warnings = @ + 1]
      ELSE IF r.kind # "event" THEN tx
      ELSE LET c == CreateRevenueEvent(tx.evs, r.event)
           IN  IF c.ok THEN [tx EXCEPT !.evs = c.evs, !.records = @ + 1]
               ELSE [tx EXCEPT !.broken = TRUE, !.warnings = @ + 1]

RECURSIVE ProcessCanonicalFile(_, _, _, _)
\* finances_normalize.process_canonical_file: the rows in file order
ProcessCanonicalFile(tx, sf, rows, force) ==
  IF rows = <<>> THEN tx
  ELSE ProcessCanonicalFile(ProcessRow(tx, sf, Head(rows), force), sf, Tail(rows), force)

\* no read fails
NoFail == <<>>

\* The read of a canonical file may fail: <<[file, rows, crash]>> says that the
\* iteration over the reader of source file `file` raises (an I/O or decoding
\* error at line 126, outside the row's try) once `rows` rows were handled, or,
\* with crash, that the process is killed at that point.
ReadFails(sfs) ==
  {NoFail} \cup {<<[file |-> i, rows |-> k, crash |-> c]>> :
                    i \in 1..Len(sfs), k \in 0..1, c \in BOOLEAN}

\* "  -> Processed N records", with what else the run wrote for the file
FileLine(tx, sf, rows) ==
  [source_file |-> sf.id, total_rows |-> Len(rows), records |-> tx.records,
   warnings |-> tx.warnings]

\* order_by('period_start', 'statement_type'): NULL dates last, text by collation
StatementTypeRank(t) ==
  CASE t = "bandcamp" -> 1 [] t = "encoding" -> 2 [] t = "labelworx" -> 3
    [] t = "royalty" -> 4 [] t = "zebralution" -> 5 [] OTHER -> 6

DateLE(a, b) ==
  \/ b = NoDate
  \/ /\ a # NoDate
     /\ \/ a[1] < b[1]
        \/ a[1] = b[1] /\ a[2] < b[2]
        \/ a[1] = b[1] /\ a[2] = b[2] /\ a[3] <= b[3]

OrderKeyLE(a, b) ==
  \/ ~DateLE(b.period_start, a.period_start)
  \/ /\ DateLE(a.period_start, b.period_start)
     /\ StatementTypeRank(a.statement_type) <= StatementTypeRank(b.statement_type)

RECURSIVE Orderings(_, _)
\* the orders in which the query may return the records ids of sfs: sorted by the
\* key, records of equal key in any order
Orderings(sfs, ids) ==
  IF ids = {} THEN {<<>>}
  ELSE UNION {{<<i>> \o rest : rest \in Orderings(sfs, ids \ {i})} :
              i \in {x \in ids : \A y \in ids : OrderKeyLE(sfs[x], sfs[y])}}

RECURSIVE NormalizeFiles(_, _, _, _, _, _, _)
\* the loop of finances_normalize.normalize_data.  [evs, broken, raised, crashed,
\* report]: raised is an exception leaving the loop (a failed read; or
\* find_canonical_file loading source_file.datasource, a query, which raises in
\* a broken transaction); crashed is the process killed in the loop
NormalizeFiles(tx, sfs, order, cd, cb, force, fail) ==
  IF order = <<>>
  THEN [evs |-> tx.evs, broken |-> tx.broken, raised |-> FALSE, crashed |-> FALSE,
        report |-> tx.report]
  ELSE IF tx.broken
  THEN [evs |-> tx.evs, broken |-> TRUE, raised |-> TRUE, crashed |-> FALSE,
        report |-> tx.report]
  ELSE LET sf == sfs[Head(order)]
           cf == FindCanonicalFile(sf, cd, cb)
           AfterFile(t) == [t EXCEPT !.records = 0, !.warnings = 0,
                                     !.report = Append(@, FileLine(t, sf, RowsOf(cf)))]
           AfterFailure(t) == [evs |-> t.evs, broken |-> t.broken, raised |-> ~fail[1].crash,
                               crashed |-> fail[1].crash, report |-> t.report]
       IN  IF cf = NoFile THEN NormalizeFiles(tx, sfs, Tail(order), cd, cb, force, fail)
           ELSE IF fail # NoFail /\ fail[1].file = Head(order)
                   /\ fail[1].rows < Len(RowsOf(cf))
           THEN AfterFailure(ProcessCanonicalFile(tx, sf, SubSeq(RowsOf(cf), 1, fail[1].rows),
                                                  force))
           ELSE NormalizeFiles(AfterFile(ProcessCanonicalFile(tx, sf, RowsOf(cf), force)),
                               sfs, Tail(order), cd, cb, force, fail)

\* a run whose block commits what was written before an exception left it (the
\* exception swallowed inside the block instead of leaving it)
NormalizeDataCommitsOnFailure(evs, sfs, order, cd, cb, force, fail) ==
  LET AtExit(r) == [evs |-> IF r.broken THEN evs ELSE r.evs,
                    committed |-> ~r.broken /\ ~r.raised /\ ~r.crashed,
                    raised |-> r.raised,
                    crashed |-> r.crashed,
                    report |-> r.report]
  IN  AtExit(NormalizeFiles([evs |-> evs, broken |-> FALSE, records |-> 0, warnings |-> 0,
                             report |-> <<>>],
                            sfs, order, cd, cb, force, fail))

\* finances_normalize.normalize_data under @transaction.atomic: [evs, committed,
\* raised, crashed, report].  The block commits only if nothing raised, the
\* process lived and the transaction is not marked for rollback; otherwise the
\* events are those before the run.
NormalizeData(evs, sfs, order, cd, cb, force, fail) ==
  LET AtExit(r) == [evs |-> IF r.broken \/ r.raised \/ r.crashed THEN evs ELSE r.evs,
                    committed |-> ~r.broken /\ ~r.raised /\ ~r.crashed,
                    raised |-> r.raised,
                    crashed |-> r.crashed,
                    report |-> r.report]
  IN  AtExit(NormalizeFiles([evs |-> evs, broken |-> FALSE, records |-> 0, warnings |-> 0,
                             report |-> <<>>],
                            sfs, order, cd, cb, force, fail))

\* ------------------------------------------ rebuild_distribution_from_sources
\* rebuild_distribution_from_sources.parse_decimal
RebuildParseDecimal(cell) ==
  LET s0 == Strip(SeqRemove(cell, "$"))
  IN  IF ParseDecimal(s0).ok THEN ParseDecimal(s0).val
      ELSE IF ParseDecimal(Replace(s0, ",", ".")).ok THEN ParseDecimal(Replace(s0, ",", ".")).val
      ELSE IF ParseDecimal(SeqRemove(s0, ",")).ok THEN ParseDecimal(SeqRemove(s0, ",")).val
      ELSE 0

\* rebuild_distribution_from_sources._parse_month: <<y, m, 1>> or NoDate
ParseMonth(cell) ==
  LET parts == SplitBy(Strip(cell), "-")
  IN  IF /\ Len(parts) = 2
         /\ ParseInt(parts[1]).ok /\ ParseInt(parts[2]).ok
         /\ ValidDate(ParseInt(parts[1]).val, ParseInt(parts[2]).val, 1)
      THEN <<ParseInt(parts[1]).val, ParseInt(parts[2]).val, 1>>
      ELSE NoDate

CanonicalPath(g) == IF g[2] = "royalty" THEN "canonical/2024/Q1/royalty.csv"
                    ELSE "canonical/2024/Q1/encoding.csv"

\* The CSV files under the distribution root in sorted(root.glob('**/*.csv'))
\* order: the raw statements, then canonical/<year>/<q>/<type>.csv.  A raw
\* Zebralution export has ';' and 'Period' in its header; a canonical file is
\* comma-delimited and is read as a Labelworx file.
RebuildFiles(dsk, cd) ==
  LET raw(f) == IF dsk[f] = NoFile THEN <<>>
                ELSE <<[path |-> f, zebralution |-> TRUE, rows |-> RowsOf(dsk[f])]>>
      can(g) == IF cd[g] = NoFile THEN <<>>
                ELSE <<[path |-> CanonicalPath(g), zebralution |-> FALSE, rows |-> RowsOf(cd[g])]>>
  IN  raw("ZEB_RS_2024-Q1.csv") \o raw("ZEB_RS_2024-Q1_correction.csv")
        \o can(<<<<2024, 1>>, "encoding">>) \o can(<<<<2024, 1>>, "royalty">>)

\* lines 119-129: a Zebralution row with neither 'Shop' nor a 'Provider' naming
\* a store brand; the rows of the model carry neither column, nor 'Artist',
\* 'Title' or 'ISRC'
UnknownStore == "(unknown)"

\* The body of the row loop, lines 117-192, for the row counted as total_rows.
\* A Labelworx row without 'Store Name' is skipped, and a canonical file has no
\* such column.
RebuildRow(sf, file, row, total_rows) ==
  LET occurred_at == ParseMonth(row.Period)
      qty      == IF row.Sales = <<>> THEN [ok |-> TRUE, val |-> 0]
                  ELSE ParseInt(Replace(row.Sales, ",", "."))
      net_eur  == RebuildParseDecimal(row.Net)
      gross_eur == RebuildParseDecimal(row.Rev)
  IN  IF ~file.zebralution THEN NoEvent
      ELSE IF ~qty.ok THEN Raised
      ELSE IF occurred_at = NoDate THEN NoEvent
      ELSE IF net_eur = 0 /\ gross_eur = 0 THEN NoEvent
      ELSE [kind |-> "event",
            event |-> [source_file |-> sf.id,
                       occurred_at |-> occurred_at,
                       platform |-> "Distribution",
                       currency |-> "EUR",
                       product_type |-> "digital",
                       quantity |-> qty.val,
                       gross_amount |-> gross_eur,
                       net_amount |-> net_eur,
                       net_amount_base |-> net_eur,
                       base_ccy |-> "EUR",
                       store |-> UnknownStore,
                       isrc |-> <<>>,
                       track_artist_name |-> <<>>,
                       track_title |-> <<>>,
                       row_hash |-> <<"rebuild", sf.datasource, file.path, total_rows>>]]

RECURSIVE RebuildRows(_, _, _, _)
\* db = [sfs, evs, total_rows]; every statement commits on its own (autocommit)
RebuildRows(db, sf, file, rows) ==
  IF rows = <<>> THEN db
  ELSE LET n == db.total_rows + 1
           r == RebuildRow(sf, file, Head(rows), n)
           c == IF r.kind = "event" THEN CreateRevenueEvent(db.evs, r.event)
                ELSE [ok |-> FALSE, evs |-> db.evs]
       IN  RebuildRows([sfs |-> db.sfs, evs |-> c.evs, total_rows |-> n], sf, file, Tail(rows))

RECURSIVE RebuildWalk(_, _)
\* the walk over the CSV files, lines 79-192: a SourceFile per physical file
RebuildWalk(db, files) ==
  IF files = <<>> THEN db
  ELSE LET file == Head(files)
           ds   == IF file.zebralution THEN "zebralution" ELSE "labelworx"
           sfs  == NewSourceFile(db.sfs, ds, file.path, "rebuild", Bytes(file.rows),
                                 NoDate, NoDate, ds)
           sf   == sfs[Len(sfs)]
       IN  RebuildWalk(RebuildRows([sfs |-> sfs, evs |-> db.evs, total_rows |-> db.total_rows],
                                   sf, file, file.rows),
                       Tail(files))

\* RevenueEvent.objects.filter(label=label, platform=platform).delete()
DeleteDistributionEvents(evs) == {e \in evs : e.platform # "Distribution"}

\* ---------------------------------------------------------------- Init
\* ------------------------------------------------------------ finances_payout
\* the one label in api_label; every source file and event of the model is its
Labels == {"Tropical Twista Records"}

\* --default-rate as a percentage
DefaultRatePercent == 50

\* str.split('-Q') unpacked into two names, int() of both, 1 <= quarter <= 4:
\* [ok, year, quarter]; not ok is the ValueError that becomes a CommandError
ParsePeriod(period) ==
  LET hits == {i \in 1..(Len(period) - 1) : period[i] = "-" /\ period[i + 1] = "Q"}
      i    == CHOOSE x \in hits : TRUE
      y    == ParseInt(SubSeq(period, 1, i - 1))
      q    == ParseInt(SubSeq(period, i + 2, Len(period)))
  IN  IF Cardinality(hits) # 1 THEN [ok |-> FALSE, year |-> 0, quarter |-> 0]
      ELSE IF ~y.ok \/ ~q.ok THEN [ok |-> FALSE, year |-> 0, quarter |-> 0]
      ELSE IF ~(1 <= q.val /\ q.val <= 4) THEN [ok |-> FALSE, year |-> 0, quarter |-> 0]
      ELSE [ok |-> TRUE, year |-> y.val, quarter |-> q.val]

\* PayoutRun.objects.filter(label, period_year, period_quarter).first(): <<id>> or NoRef
ExistingPayout(runs, year, quarter) ==
  LET hits == {i \in 1..Len(runs) :
                 runs[i].period_year = year /\ runs[i].period_quarter = quarter}
  IN  IF hits = {} THEN NoRef ELSE <<CHOOSE x \in hits : \A y \in hits : x <= y>>

\* handle, lines 60-67
QuarterStart(year, quarter) == <<year, (quarter - 1) * 3 + 1, 1>>

QuarterEnd(year, quarter) ==
  IF quarter = 4 THEN <<year + 1, 1, 1>> ELSE <<year, (quarter - 1) * 3 + 4, 1>>

DateLT(a, b) ==
  \/ a[1] < b[1]
  \/ a[1] = b[1] /\ a[2] < b[2]
  \/ a[1] = b[1] /\ a[2] = b[2] /\ a[3] < b[3]

\* a filter that takes the first day of the next quarter too
PeriodEventsToNextStart(evs, year, quarter) ==
  {e \in evs : /\ ~DateLT(e.occurred_at, QuarterStart(year, quarter))
               /\ ~DateLT(QuarterEnd(year, quarter), e.occurred_at)}

\* RevenueEvent.objects.filter(label, occurred_at__date__gte, occurred_at__date__lt)
PeriodEvents(evs, year, quarter) ==
  {e \in evs : /\ ~DateLT(e.occurred_at, QuarterStart(year, quarter))
               /\ DateLT(e.occurred_at, QuarterEnd(year, quarter))}

RECURSIVE SumNet(_)
SumNet(evs) ==
  IF evs = {} THEN 0
  ELSE LET e == CHOOSE x \in evs : TRUE IN e.net_amount + SumNet(evs \ {e})

\* finances_payout.calculate_payouts: one entry per "<platform>_<currency>" key.
\* total_revenue is in hundredths, artist_payout (net_amount * default_rate,
\* summed) in ten-thousandths.
CalculatePayouts(evs, rate) ==
  {[platform      |-> k[1],
    currency      |-> k[2],
    total_revenue |-> SumNet({e \in evs : e.platform = k[1] /\ e.currency = k[2]}),
    events_count  |-> Cardinality({e \in evs : e.platform = k[1] /\ e.currency = k[2]}),
    artist_payout |-> SumNet({e \in evs : e.platform = k[1] /\ e.currency = k[2]}) * rate]
   : k \in {<<e.platform, e.currency>> : e \in evs}}

\* PayoutRun.objects.create under unique_together (label, period_year,
\* period_quarter): [ok, runs]; not ok is the IntegrityError
CreatePayoutRun(runs, year, quarter) ==
  IF ExistingPayout(runs, year, quarter) # NoRef THEN [ok |-> FALSE, runs |-> runs]
  ELSE [ok |-> TRUE,
        runs |-> Append(runs, [id |-> Len(runs) + 1, period_year |-> year,
                               period_quarter |-> quarter, base_currency |-> "EUR",
                               status |-> "draft"])]

RECURSIVE CreatePayoutLines(_, _, _)
\* finances_payout.create_payout_lines: a line per entry, for the placeholder artist
CreatePayoutLines(lines, run_id, calc) ==
  IF calc = {} THEN lines
  ELSE LET d == CHOOSE x \in calc : TRUE
       IN  CreatePayoutLines(
             Append(lines, [payout_run |-> run_id, artist |-> "Various Artists",
                            amount_base |-> d.artist_payout,
                            amount_original |-> d.artist_payout,
                            original_currency |-> d.currency,
                            fx_rate_used |-> 1]),
             run_id, calc \ {d})

\* a run that saves whatever --preview says
PersistAlways(preview) == TRUE

\* handle, line 85: if not preview
ShouldPersist(preview) == ~preview


\* One finances_ingest run over the tree st.disk: ingest_distribution,
\* ingest_bandcamp, then register_source_files.  chosen names the file picked
\* for every group that has candidates.
Ingested(st, chosen) ==
  LET md == [p \in Periods |-> AppendGroups(st.metaDist[p], st.disk, chosen, p)]
      mb == IF st.disk[BandcampFileId] # NoFile
            THEN WriteMetaJson(st.metaBandcamp, BandcampMeta(st.disk)) ELSE st.metaBandcamp
  IN  [disk |-> st.disk,
       canonDist |-> [g \in Groups |->
          IF g \in ActiveGroups(st.disk)
          THEN File(BuildCanonicalDistribution(RowsOf(st.disk[chosen[g]]),
                                               ~NameInfo(chosen[g]).conv))
          ELSE st.canonDist[g]],
       canonBandcamp |-> IF st.disk[BandcampFileId] # NoFile
                         THEN File(BuildCanonicalBandcamp(RowsOf(st.disk[BandcampFileId])))
                         ELSE st.canonBandcamp,
       metaDist |-> md,
       metaBandcamp |-> mb,
       sourceFiles |-> RegisterSourceFiles(st.sourceFiles, mb, md)]

\* the database and the tree before anything was ingested
EmptyTree ==
  [disk |-> [f \in FileIds |-> NoFile],
   canonDist |-> [g \in Groups |-> NoFile],
   canonBandcamp |-> NoFile,
   metaDist |-> [p \in Periods |-> <<>>],
   metaBandcamp |-> <<>>,
   sourceFiles |-> <<>>]

InitPipeline ==
  /\ disk = EmptyTree.disk
  /\ canonDist = EmptyTree.canonDist
  /\ canonBandcamp = EmptyTree.canonBandcamp
  /\ metaDist = EmptyTree.metaDist
  /\ metaBandcamp = EmptyTree.metaBandcamp
  /\ sourceFiles = EmptyTree.sourceFiles
  /\ events = {}
  /\ batches = <<>>
  /\ writes = 0
  /\ normRuns = 0
  /\ normReport = <<>>

InitPayoutTables ==
  /\ payoutRuns = <<>>
  /\ payoutLines = <<>>
  /\ artists = {}
  /\ payoutOut = <<>>

InitWarehouse ==
  /\ rawBandcamp = <<>>
  /\ stagingDist = <<>>
  /\ factRevenue = <<>>
  /\ fxCache = [c \in {"USD", "EUR"} |-> <<>>]
  /\ dwPc = "idle"
  /\ dwRates = <<>>
  /\ dwBefore = <<>>
  /\ dwBuilds = <<>>
  /\ dwRead = <<>>

\* no two commands run at the same time
NoProcs == <<>>
InitProcs == procs = NoProcs

Init == InitPipeline /\ InitPayoutTables /\ InitWarehouse /\ InitProcs

\* The operator drops a statement file into the source tree, or replaces one.
WriteFile(f, rows) ==
  /\ writes < MaxWrites
  /\ disk[f] # File(rows)
  /\ disk' = [disk EXCEPT ![f] = File(rows)]
  /\ writes' = writes + 1
  /\ normReport' = <<>>
  /\ UNCHANGED <<canonDist, canonBandcamp, metaDist, metaBandcamp, sourceFiles,
                 events, batches, normRuns>>
  /\ UNCHANGED <<payoutVars, dwVars, concVars>>

\* manage.py finances_ingest
FinancesIngest ==
  \E chosen \in [ActiveGroups(disk) -> DOMAIN disk] :
    /\ \A g \in ActiveGroups(disk) : chosen[g] \in Best(disk, g)
    /\ LET st == Ingested([disk |-> disk, canonDist |-> canonDist,
                           canonBandcamp |-> canonBandcamp, metaDist |-> metaDist,
                           metaBandcamp |-> metaBandcamp, sourceFiles |-> sourceFiles],
                          chosen)
       IN  /\ \A p \in Periods : Len(st.metaDist[p]) <= MaxMeta
           /\ Len(st.metaBandcamp) <= MaxMeta
           /\ Len(st.sourceFiles) <= MaxSourceFiles
           /\ canonDist' = st.canonDist
           /\ canonBandcamp' = st.canonBandcamp
           /\ metaDist' = st.metaDist
           /\ metaBandcamp' = st.metaBandcamp
           /\ sourceFiles' = st.sourceFiles
    /\ normRuns' = IF UNCHANGED <<canonDist, canonBandcamp, sourceFiles>> THEN normRuns ELSE 0
    /\ normReport' = <<>>
    /\ UNCHANGED <<disk, events, batches, writes>>
    /\ UNCHANGED <<payoutVars, dwVars, concVars>>

\* what a run leaves on the terminal: the line of every file it went through,
\* and whether it ended in "Successfully normalized" or failed ("Normalization
\* failed", a CommandError, or the process killed)
RunReport(r) == <<[files |-> r.report, failed |-> r.raised \/ r.crashed]>>

\* the ImportBatch of a run: created with the default status and no finished_at
\* before normalize_data, saved after it, or in the except branch as failed
BatchOf(r) ==
  IF r.crashed THEN [status |-> "completed", finished |-> FALSE]
  ELSE IF r.raised THEN [status |-> "failed", finished |-> TRUE]
  ELSE [status |-> "completed", finished |-> TRUE]

\* manage.py finances_normalize [--force], when the reads of the canonical files
\* may fail as fails says
NormalizeRun(force, fails) ==
  /\ Len(batches) < MaxBatches
  /\ \E order \in Orderings(sourceFiles, 1..Len(sourceFiles)) :
     \E fail \in fails :
       \E r \in {NormalizeData(events, sourceFiles, order, canonDist, canonBandcamp, force,
                               fail)} :
         /\ events' = r.evs
         /\ batches' = Append(batches, BatchOf(r))
         /\ normRuns' = IF r.committed THEN (IF normRuns = 0 THEN 1 ELSE 2) ELSE normRuns
         /\ normReport' = RunReport(r)
  /\ UNCHANGED <<disk, canonDist, canonBandcamp, metaDist, metaBandcamp, sourceFiles, writes>>
  /\ UNCHANGED <<payoutVars, dwVars, concVars>>

\* manage.py finances_normalize [--force] over a tree whose files can be read
FinancesNormalize(force) == NormalizeRun(force, {NoFail})

\* manage.py finances_normalize [--force] over a tree whose files may fail to be read
FinancesNormalizeReadFails(force) == NormalizeRun(force, ReadFails(sourceFiles) \ {NoFail})
\* manage.py rebuild_distribution_from_sources [--dry-run]
RebuildDistribution(dry_run) ==
  /\ \E db \in {RebuildWalk([sfs |-> sourceFiles, evs |-> DeleteDistributionEvents(events),
                              total_rows |-> 0],
                             RebuildFiles(disk, canonDist))} :
       /\ Len(db.sfs) <= MaxSourceFiles
       /\ sourceFiles' = IF dry_run THEN sourceFiles ELSE db.sfs
       /\ events' = IF dry_run THEN events ELSE db.evs
  /\ normRuns' = IF UNCHANGED <<events, sourceFiles>> THEN normRuns ELSE 0
  /\ normReport' = <<>>
  /\ UNCHANGED <<disk, canonDist, canonBandcamp, metaDist, metaBandcamp, batches, writes>>
  /\ UNCHANGED <<payoutVars, dwVars, concVars>>

Next ==
  \/ \E f \in FileIds : \E rows \in ContentsFor(f) : WriteFile(f, rows)
  \/ FinancesIngest
  \/ \E force \in BOOLEAN : FinancesNormalize(force)

Spec == Init /\ [][Next]_vars

\* the pipeline with the rebuild command
NextRebuild ==
  \/ Next
  \/ \E dry_run \in BOOLEAN : RebuildDistribution(dry_run)

SpecRebuild == Init /\ [][NextRebuild]_vars

\* the pipeline over a tree whose canonical files may fail to be read
NextReadFails ==
  \/ Next
  \/ \E force \in BOOLEAN : FinancesNormalizeReadFails(force)

SpecReadFails == Init /\ [][NextReadFails]_vars

\* ------------------------------------------------ the maintenance commands
Unknown == <<"U", "n", "k", "n", "o", "w", "n">>
Exchange == <<"E", "x", "c", "h", "a", "n", "g", "e">>

\* field__icontains=word (the text fields of the model hold no letters whose
\* case could differ from the word's)
IContains(s, word) ==
  \E i \in 1..(Len(s) - Len(word) + 1) : SubSeq(s, i, i + Len(word) - 1) = word

\* cleanup_blanks lines 13-17: platform Bandcamp, track_artist_name '' and track_title ''
BlankBandcamp(evs) ==
  {e \in evs : /\ e.platform = "Bandcamp"
               /\ e.track_artist_name = <<>>
               /\ e.track_title = <<>>}

\* cleanup_blanks lines 35-41
InvalidDist(evs) ==
  {e \in evs : /\ e.platform = "Distribution"
               /\ \/ e.track_artist_name = Unknown /\ e.track_title = Unknown
                  \/ IContains(e.isrc, Exchange)
                  \/ IContains(e.track_title, Exchange)}

\* cleanup_blanks lines 31 and 46: the two delete() calls, one after the other
CleanupBlanksEvents(evs) ==
  LET kept == evs \ BlankBandcamp(evs) IN kept \ InvalidDist(kept)

\* manage.py cleanup_blanks
CleanupBlanks ==
  /\ events' = CleanupBlanksEvents(events)
  /\ normRuns' = IF events' = events THEN normRuns ELSE 0
  /\ normReport' = <<>>
  /\ UNCHANGED <<disk, canonDist, canonBandcamp, metaDist, metaBandcamp, sourceFiles,
                 batches, writes>>
  /\ UNCHANGED <<payoutVars, dwVars, concVars>>

\* backfill_distribution_stores lines 31 and 56: the events of the Labelworx and
\* Zebralution source files that have no store
BackfillTargets(evs, sfs) ==
  {e \in evs : /\ e.platform = "Distribution"
               /\ e.store = NoStore
               /\ \E i \in 1..Len(sfs) : /\ sfs[i].id = e.source_file
                                         /\ sfs[i].datasource \in {"labelworx", "zebralution"}}

\* lines 59-76.  mapped: whether the CSV of the source file names a store for the
\* event's (isrc, title, artist) key, or for its ISRC alone
BackfillStores(evs, sfs, mapped, dry_run) ==
  LET targets == BackfillTargets(evs, sfs)
  IN  IF dry_run \/ ~mapped THEN evs
      ELSE (evs \ targets) \cup {[e EXCEPT !.store = "Shop"] : e \in targets}

\* manage.py backfill_distribution_stores [--dry-run]
BackfillDistributionStores(dry_run, mapped) ==
  /\ events' = BackfillStores(events, sourceFiles, mapped, dry_run)
  /\ normReport' = <<>>
  /\ UNCHANGED <<disk, canonDist, canonBandcamp, metaDist, metaBandcamp, sourceFiles,
                 batches, writes, normRuns>>
  /\ UNCHANGED <<payoutVars, dwVars, concVars>>

\* the pipeline with the rebuild, cleanup and backfill commands
NextMaintain ==
  \/ NextRebuild
  \/ CleanupBlanks
  \/ \E dry_run \in BOOLEAN : \E mapped \in BOOLEAN :
       BackfillDistributionStores(dry_run, mapped)

SpecMaintain == Init /\ [][NextMaintain]_vars

\* ------------------------------------------------- the canonicalizer, running
MaxCellLen == 3

\* amounts a Zebralution export may hold in a comma-decimal column: an integer
\* part, with or without a sign and '.' between the thousands, ',' and decimals
IntParts == {<<"7">>, <<"1", "2">>, <<"-", "3">>, <<"1", ".", "2", "3", "4">>}
FracParts == {<<"5">>, <<"5", "6">>}
AmountCells == {ip \o <<",">> \o fp : ip \in IntParts, fp \in FracParts}

\* what a text column (a title, an address, an identifier) may hold
C_address == <<"R", "u", "a", " ", "A", ",", " ", "1", "2">>
C_catalog == <<"T", "T", "-", "0", "0", "1", ",", "B">>
C_tracks == <<"1", "2", "-", "3", "4", ",", "5">>
C_padded == <<NBSP, "A", ",", "B">>
TextCells ==
  {C_address, C_catalog, C_tracks, C_padded}
    \cup UNION {[1..k -> {"A", "1", ",", "-"}] : k \in 0..MaxCellLen}

\* a Zebralution royalty row with a text column
TitledRow(rev, title) ==
  [Period |-> C_2024_01, Sales |-> C_10, Rev |-> rev, Net |-> C_empty, Title |-> title]

\* amounts of a line that earned nothing (a free download, a stream at 0,00)
C_0c00 == <<"0", ",", "0", "0">>
C_0d00 == <<"0", ".", "0", "0">>
ZeroCells == {C_0c00, <<"0">>}
BcFree == [date |-> C_date, amount |-> C_0d00, total |-> C_0d00, quantity |-> C_1,
           currency |-> "USD", item_type |-> "track"]

\* stray non-numeric artifacts in a numeric column
C_dash == <<"-">>
C_na == <<"n", "/", "a">>
ArtifactCells == {C_dash, C_na}
BcArtifact == [date |-> C_date, amount |-> C_na, total |-> C_8d00, quantity |-> C_1,
               currency |-> "USD", item_type |-> "track"]
BcBadQuantity == [date |-> C_date, amount |-> C_7d00, total |-> C_8d00, quantity |-> C_na,
                  currency |-> "USD", item_type |-> "track"]

\* the source tree holds one statement of one such row, with or without a
\* Bandcamp export of one sale (a free download, or one with an artifact);
\* nothing was ingested
InitConvert ==
  /\ \E row \in {TitledRow(rev, C_address) :
                    rev \in AmountCells \cup ZeroCells \cup ArtifactCells}
                \cup {TitledRow(C_5c00, title) : title \in TextCells} :
       \E bc \in {NoFile, File(<<BcFree>>), File(<<BcArtifact>>), File(<<BcBadQuantity>>)} :
         /\ disk = [f \in FileIds |-> IF f = "ZEB_RS_2024-Q1.csv" THEN File(<<row>>)
                                      ELSE IF f = BandcampFileId THEN bc ELSE NoFile]
         /\ writes = IF bc = NoFile THEN 1 ELSE 2
  /\ canonDist = EmptyTree.canonDist
  /\ canonBandcamp = EmptyTree.canonBandcamp
  /\ metaDist = EmptyTree.metaDist
  /\ metaBandcamp = EmptyTree.metaBandcamp
  /\ sourceFiles = EmptyTree.sourceFiles
  /\ events = {}
  /\ batches = <<>>
  /\ normRuns = 0
  /\ normReport = <<>>
  /\ InitPayoutTables
  /\ InitWarehouse
  /\ InitProcs

NextConvert ==
  \/ FinancesIngest
  \/ \E force \in BOOLEAN : FinancesNormalize(force)

SpecConvert == InitConvert /\ [][NextConvert]_vars

\* ------------------------------------------------------- the payout command
\* Bandcamp sales on both sides of the end of the first quarter, and one in EUR
C_mar31 == <<"3", "/", "3", "1", "/", "2", "0", "2", "4">>
C_apr1 == <<"4", "/", "1", "/", "2", "0", "2", "4">>
C_3d00 == <<"3", ".", "0", "0">>
C_5d01 == <<"5", ".", "0", "1">>

BcMar31 == [date |-> C_mar31, amount |-> C_3d00, total |-> C_3d00, quantity |-> C_1,
            currency |-> "USD", item_type |-> "album"]
BcApr1 == [date |-> C_apr1, amount |-> C_5d01, total |-> C_5d01, quantity |-> C_1,
           currency |-> "USD", item_type |-> "track"]
BcEur == [date |-> C_date, amount |-> C_3d00, total |-> C_3d00, quantity |-> C_1,
          currency |-> "EUR", item_type |-> "track"]

\* the statements the payout runs start from
PayoutBandcampContents ==
  {<<BcA>>, <<BcA, BcMar31>>, <<BcA, BcMar31, BcApr1>>, <<BcApr1>>, <<BcEur, BcApr1>>}
PayoutDistContents == {<<ZebA>>, <<ZebA, ZebB>>}

\* the tree with these statements in it, ingested once
IngestedTree(bc, dist) ==
  LET dsk == [f \in FileIds |->
                IF f = BandcampFileId THEN bc
                ELSE IF f = "ZEB_RS_2024-Q1.csv" THEN dist ELSE NoFile]
      st0 == [EmptyTree EXCEPT !.disk = dsk]
  IN  Ingested(st0, [g \in ActiveGroups(dsk) |-> CHOOSE f \in Best(dsk, g) : TRUE])

\* one finances_normalize over that tree
NormalizedOnce(st) ==
  NormalizeData({}, st.sourceFiles,
                CHOOSE o \in Orderings(st.sourceFiles, 1..Len(st.sourceFiles)) : TRUE,
                st.canonDist, st.canonBandcamp, FALSE, NoFail)

\* the events of that tree after one finances_normalize
NormalizedEvents(st) == NormalizedOnce(st).evs

\* the pipeline after these statements were ingested and normalized once
PipelineNormalized(bc, dist) ==
  LET st == IngestedTree(bc, dist)
  IN  /\ disk = st.disk
      /\ canonDist = st.canonDist
      /\ canonBandcamp = st.canonBandcamp
      /\ metaDist = st.metaDist
      /\ metaBandcamp = st.metaBandcamp
      /\ sourceFiles = st.sourceFiles
      /\ events = NormalizedEvents(st)
      /\ writes = IF dist = NoFile THEN 1 ELSE 2
      /\ batches = <<[status |-> "completed", finished |-> TRUE]>>
      /\ normRuns = 1
      /\ normReport = RunReport(NormalizedOnce(st))

\* ------------------------------------------ a tree of several candidates
\* the *.csv files under distribution/: the statement, its correction, the
\* encoding statement, a converted spreadsheet, a statement whose name has no
\* period, and a file without period or statement type
TreeFileIds ==
  DistFileIds \cup {"ZEB_TK_2024-Q1.csv", "ZEB_RS_2024-Q1__converted.csv",
                    "ZEB_RS_latest.csv", "notes.csv"}

\* any of these files may be in the tree when finances_ingest runs
InitTree ==
  /\ disk \in [TreeFileIds \cup {BandcampFileId} -> {NoFile} \cup {File(r) : r \in DistContents}]
  /\ disk[BandcampFileId] = NoFile
  /\ canonDist = EmptyTree.canonDist
  /\ canonBandcamp = EmptyTree.canonBandcamp
  /\ metaDist = EmptyTree.metaDist
  /\ metaBandcamp = EmptyTree.metaBandcamp
  /\ sourceFiles = EmptyTree.sourceFiles
  /\ events = {}
  /\ batches = <<>>
  /\ writes = 0
  /\ normRuns = 0
  /\ normReport = <<>>
  /\ InitPayoutTables
  /\ InitWarehouse
  /\ InitProcs

SpecTree == InitTree /\ [][FinancesIngest]_vars

\* --------------------------------------- independent files, in any order
\* the file is on disk and no Source File holds its path and digest
Unregistered(f) ==
  /\ disk[f] # NoFile
  /\ ~\E i \in 1..Len(sourceFiles) :
        /\ sourceFiles[i].path = f
        /\ sourceFiles[i].sha256 = ComputeSha256(RowsOf(disk[f]))

PendingIngest == \E f \in FileIds : Unregistered(f)

\* no file of the tree is of the vendor and group of f
Independent(f) ==
  IF f = BandcampFileId THEN disk[f] = NoFile
  ELSE \A h \in DistFileIds : disk[h] = NoFile

\* the operator drops statements of different vendors, one after the other or
\* together, ingests what was dropped, and normalizes what was ingested
CommuteWrite(f, rows) == Independent(f) /\ WriteFile(f, rows)
CommuteIngest == PendingIngest /\ FinancesIngest
CommuteNormalize == ~PendingIngest /\ normReport = <<>> /\ FinancesNormalize(FALSE)

NextCommute ==
  \/ \E f \in FileIds : \E rows \in ContentsFor(f) : CommuteWrite(f, rows)
  \/ CommuteIngest
  \/ CommuteNormalize

SpecCommute == Init /\ [][NextCommute]_vars

\* the tree after the Bandcamp export alone was ingested, then the whole of dsk
BandcampFirst(dsk) ==
  LET d1  == [f \in FileIds |-> IF f = BandcampFileId THEN dsk[f] ELSE NoFile]
      Pick(d) == [g \in ActiveGroups(d) |-> CHOOSE f \in Best(d, g) : TRUE]
      st1 == Ingested([EmptyTree EXCEPT !.disk = d1], Pick(d1))
  IN  [first |-> st1, second |-> Ingested([st1 EXCEPT !.disk = dsk], Pick(dsk))]

\* the events after the Bandcamp export was ingested and normalized, then the
\* rest of dsk
BandcampFirstEvents(dsk) ==
  LET t == BandcampFirst(dsk)
      Order(st) == CHOOSE o \in Orderings(st.sourceFiles, 1..Len(st.sourceFiles)) : TRUE
      Run(evs, st) == NormalizeData(evs, st.sourceFiles, Order(st), st.canonDist,
                                    st.canonBandcamp, FALSE, NoFail).evs
  IN  Run(Run({}, t.first), t.second)

\* ------------------------------------- two registrations at the same time
\* Two finances_ingest runs that have both written the canonical tree and are
\* in register_source_files.  Each runs in one transaction (@transaction.atomic)
\* of the database's default isolation level, READ COMMITTED: a query sees what
\* is committed and what its own transaction wrote.
Procs == {1, 2}

Tagged(ds, entries) == [i \in 1..Len(entries) |-> [ds |-> ds, m |-> entries[i]]]

RECURSIVE DistEntries(_, _)
DistEntries(md, ps) ==
  IF ps = {} THEN <<>>
  ELSE LET p == CHOOSE x \in ps : TRUE
       IN  Tagged("distribution", md[p]) \o DistEntries(md, ps \ {p})

\* the get_or_create calls of register_source_files, in order: the entries of
\* the bandcamp sidecar, then those of every distribution sidecar
MetaEntries(mb, md) == Tagged("bandcamp", mb) \o DistEntries(md, Periods)

\* the lookup of get_or_create: datasource, label, path, sha256
SameContent(ds1, path1, sha1, ds2, path2, sha2) ==
  ds1 = ds2 /\ path1 = path2 /\ sha1 = sha2

\* SourceFile.objects.get(...) as transaction p sees the table
SourceFileFound(p, e) ==
  \/ \E i \in 1..Len(sourceFiles) :
       SameContent(sourceFiles[i].datasource, sourceFiles[i].path, sourceFiles[i].sha256,
                   e.ds, e.m.path, e.m.sha256)
  \/ \E i \in 1..Len(procs[p].created) :
       SameContent(procs[p].created[i].ds, procs[p].created[i].m.path,
                   procs[p].created[i].m.sha256, e.ds, e.m.path, e.m.sha256)

RECURSIVE CommitSourceFiles(_, _)
\* the rows a transaction inserted become visible; the model numbers records in
\* the order in which they become visible
CommitSourceFiles(sfs, created) ==
  IF created = <<>> THEN sfs
  ELSE LET e == Head(created)
       IN  CommitSourceFiles(NewSourceFile(sfs, e.ds, e.m.path, e.m.sha256, e.m.bytes,
                                           PeriodStart(e.m.period), PeriodEnd(e.m.period),
                                           e.m.statement_type),
                             Tail(created))

RegIdle == [cmd |-> "finances_ingest", pc |-> "idle", todo |-> <<>>, created |-> <<>>]

\* register_source_files is entered: the transaction begins, the sidecars are read
RegBegin(p) ==
  /\ procs[p].pc = "idle"
  /\ procs' = [procs EXCEPT ![p] = [@ EXCEPT !.pc = "get",
                                             !.todo = MetaEntries(metaBandcamp, metaDist)]]
  /\ UNCHANGED <<pipeVars, payoutVars, dwVars>>

\* get_or_create, first half: the SELECT
RegGet(p) ==
  /\ procs[p].pc = "get"
  /\ procs[p].todo # <<>>
  /\ procs' = [procs EXCEPT ![p] =
                 IF SourceFileFound(p, Head(procs[p].todo))
                 THEN [@ EXCEPT !.todo = Tail(@)]
                 ELSE [@ EXCEPT !.pc = "create"]]
  /\ UNCHANGED <<pipeVars, payoutVars, dwVars>>

\* get_or_create, second half: the INSERT after DoesNotExist; no constraint of
\* finances_sourcefile can refuse it
RegCreate(p) ==
  /\ procs[p].pc = "create"
  /\ procs' = [procs EXCEPT ![p] = [@ EXCEPT !.pc = "get",
                                             !.created = Append(@, Head(procs[p].todo)),
                                             !.todo = Tail(@)]]
  /\ UNCHANGED <<pipeVars, payoutVars, dwVars>>

\* register_source_files returns: the transaction commits
RegCommit(p) ==
  /\ procs[p].pc = "get"
  /\ procs[p].todo = <<>>
  /\ sourceFiles' = CommitSourceFiles(sourceFiles, procs[p].created)
  /\ procs' = [procs EXCEPT ![p] = [@ EXCEPT !.pc = "done", !.created = <<>>]]
  /\ UNCHANGED <<disk, canonDist, canonBandcamp, metaDist, metaBandcamp, events, batches,
                 writes, normRuns, normReport>>
  /\ UNCHANGED <<payoutVars, dwVars>>

\* the statements the two runs have ingested
RegisterBandcamp == {File(<<BcA>>), File(<<BcA, BcNoDate>>)}
RegisterDistribution == {NoFile, File(<<ZebA>>), File(<<ZebA, ZebB>>)}

\* the canonical tree and the sidecars are written; the table is empty, or holds
\* the records of an earlier run
InitRegister ==
  /\ \E bc \in RegisterBandcamp : \E dist \in RegisterDistribution :
       LET st == IngestedTree(bc, dist)
       IN  /\ disk = st.disk
           /\ canonDist = st.canonDist
           /\ canonBandcamp = st.canonBandcamp
           /\ metaDist = st.metaDist
           /\ metaBandcamp = st.metaBandcamp
           /\ sourceFiles \in {<<>>, st.sourceFiles}
           /\ writes = IF dist = NoFile THEN 1 ELSE 2
  /\ events = {}
  /\ batches = <<>>
  /\ normRuns = 0
  /\ normReport = <<>>
  /\ InitPayoutTables
  /\ InitWarehouse
  /\ procs = [p \in Procs |-> RegIdle]

NextRegister ==
  \E p \in Procs : RegBegin(p) \/ RegGet(p) \/ RegCreate(p) \/ RegCommit(p)

SpecRegister == InitRegister /\ [][NextRegister]_vars

\* ------------------------------------ two normalizations at the same time
\* Two finances_normalize runs, each in the one transaction of normalize_data.
\* A run: [force; files, the ids of the source files still to open; sf and rows,
\* the file at hand and its rows still to process; pending, the events its
\* transaction has inserted; broken, whether a database error has marked the
\* transaction for rollback; raised, whether an exception left the loop]
NormIdle ==
  [cmd |-> "finances_normalize", pc |-> "idle", force |-> FALSE, files |-> <<>>, sf |-> 0,
   rows |-> <<>>, pending |-> {}, broken |-> FALSE, raised |-> FALSE]

RowPc(t) == IF t.force THEN "insert" ELSE "check"

RECURSIVE NextFile(_)
\* the head of the loop of normalize_data: find_canonical_file loads
\* source_file.datasource, a query, which raises in a broken transaction
NextFile(t) ==
  IF t.files = <<>> THEN [t EXCEPT !.pc = "exit"]
  ELSE IF t.broken THEN [t EXCEPT !.pc = "exit", !.raised = TRUE]
  ELSE LET sf == sourceFiles[Head(t.files)]
           cf == FindCanonicalFile(sf, canonDist, canonBandcamp)
       IN  IF cf = NoFile \/ RowsOf(cf) = <<>>
           THEN NextFile([t EXCEPT !.files = Tail(@)])
           ELSE [t EXCEPT !.files = Tail(@), !.sf = sf.id, !.rows = RowsOf(cf),
                          !.pc = RowPc(t)]

\* the row at hand is done: the next row of the file, or the next file
NextRow(t) ==
  IF Len(t.rows) > 1 THEN [t EXCEPT !.rows = Tail(@), !.pc = RowPc(t)]
  ELSE NextFile([t EXCEPT !.rows = <<>>])

\* the row at hand, its hash, and what its handler returns
RowHashAtHand(t) == ComputeRowHash(sourceFiles[t.sf], Head(t.rows))
RowAtHand(t) ==
  IF sourceFiles[t.sf].datasource = "bandcamp"
  THEN ProcessBandcampRow(sourceFiles[t.sf], Head(t.rows), RowHashAtHand(t))
  ELSE ProcessDistributionRow(sourceFiles[t.sf], Head(t.rows), RowHashAtHand(t))

\* the events the transactions of the other runs have inserted and not yet
\* committed or rolled back
HeldByOthers(p) == UNION {procs[q].pending : q \in Procs \ {p}}

\* the INSERT of run p waits for another transaction to end: the unique index
\* on row_hash holds an uncommitted entry for the hash
Waits(p) ==
  /\ procs[p].pc = "insert"
  /\ ~procs[p].broken
  /\ RowAtHand(procs[p]).kind = "event"
  /\ RowHashExists(HeldByOthers(p), RowHashAtHand(procs[p]))

\* handle calls normalize_data: the transaction begins, the source files are queried
NormBegin(p, force) ==
  /\ procs[p].pc = "idle"
  /\ \E order \in Orderings(sourceFiles, 1..Len(sourceFiles)) :
       procs' = [procs EXCEPT ![p] = NextFile([@ EXCEPT !.force = force, !.files = order])]
  /\ UNCHANGED <<pipeVars, payoutVars, dwVars>>

\* process_canonical_file line 132: the exists() query, which sees what is
\* committed and what the run itself inserted; it raises in a broken transaction
NormCheck(p) ==
  /\ procs[p].pc = "check"
  /\ procs' = [procs EXCEPT ![p] =
                 IF @.broken \/ RowHashExists(events \cup @.pending, RowHashAtHand(@))
                 THEN NextRow(@)
                 ELSE [@ EXCEPT !.pc = "insert"]]
  /\ UNCHANGED <<pipeVars, payoutVars, dwVars>>

\* lines 136-144: the row handler and its RevenueEvent.objects.create
NormInsert(p) ==
  /\ procs[p].pc = "insert"
  /\ ~Waits(p)
  /\ procs' = [procs EXCEPT ![p] =
                 IF @.broken \/ RowAtHand(@).kind # "event" THEN NextRow(@)
                 ELSE IF CreateRevenueEvent(events \cup @.pending, RowAtHand(@).event).ok
                 THEN NextRow([@ EXCEPT !.pending = @ \cup {RowAtHand(procs[p]).event}])
                 ELSE NextRow([@ EXCEPT !.broken = TRUE])]
  /\ UNCHANGED <<pipeVars, payoutVars, dwVars>>

\* both runs wait for each other: the database ends the wait of one of them with
\* a deadlock error, which the row's except swallows
NormDeadlock(p) ==
  /\ Waits(p)
  /\ \E q \in Procs \ {p} : Waits(q)
  /\ procs' = [procs EXCEPT ![p] = NextRow([@ EXCEPT !.broken = TRUE])]
  /\ UNCHANGED <<pipeVars, payoutVars, dwVars>>

\* normalize_data is left: commit, or rollback when an exception leaves it or the
\* transaction is marked for rollback; handle saves the batch
NormExit(p) ==
  /\ procs[p].pc = "exit"
  /\ LET committed == ~procs[p].broken /\ ~procs[p].raised
     IN  /\ events' = IF committed THEN events \cup procs[p].pending ELSE events
         /\ normRuns' = IF committed THEN (IF normRuns = 0 THEN 1 ELSE 2) ELSE normRuns
  /\ batches' = Append(batches, BatchOf([crashed |-> FALSE, raised |-> procs[p].raised]))
  /\ normReport' = <<>>
  /\ procs' = [procs EXCEPT ![p] = [@ EXCEPT !.pc = "done", !.pending = {}]]
  /\ UNCHANGED <<disk, canonDist, canonBandcamp, metaDist, metaBandcamp, sourceFiles, writes>>
  /\ UNCHANGED <<payoutVars, dwVars>>

\* a statement that was ingested, then replaced by a longer one and ingested again
ReingestedTree ==
  LET st  == IngestedTree(File(<<BcA>>), File(<<ZebA>>))
      dsk == [st.disk EXCEPT !["ZEB_RS_2024-Q1.csv"] = File(<<ZebA, ZebB>>)]
  IN  Ingested([st EXCEPT !.disk = dsk],
               [g \in ActiveGroups(dsk) |-> CHOOSE f \in Best(dsk, g) : TRUE])

ConcurrentTrees ==
  {IngestedTree(File(<<BcA>>), dist) : dist \in {NoFile, File(<<ZebA>>), File(<<ZebA, ZebB>>)}}
    \cup {ReingestedTree}

\* the statements are ingested and nothing is normalized yet
InitConcurrent ==
  /\ \E st \in ConcurrentTrees :
       /\ disk = st.disk
       /\ canonDist = st.canonDist
       /\ canonBandcamp = st.canonBandcamp
       /\ metaDist = st.metaDist
       /\ metaBandcamp = st.metaBandcamp
       /\ sourceFiles = st.sourceFiles
  /\ writes = MaxWrites
  /\ events = {}
  /\ batches = <<>>
  /\ normRuns = 0
  /\ normReport = <<>>
  /\ InitPayoutTables
  /\ InitWarehouse
  /\ procs = [p \in Procs |-> NormIdle]

NextConcurrent ==
  \E p \in Procs :
    \/ \E force \in BOOLEAN : NormBegin(p, force)
    \/ NormCheck(p)
    \/ NormInsert(p)
    \/ NormDeadlock(p)
    \/ NormExit(p)

SpecConcurrent == InitConcurrent /\ [][NextConcurrent]_vars

\* statements ingested and normalized once; no payout yet
InitPayout ==
  /\ \E bc \in {File(r) : r \in PayoutBandcampContents} :
       \E dist \in {NoFile} \cup {File(r) : r \in PayoutDistContents} :
         PipelineNormalized(bc, dist)
  /\ InitPayoutTables
  /\ InitWarehouse
  /\ InitProcs

P_2024Q1 == <<"2", "0", "2", "4", "-", "Q", "1">>
P_2024Q2 == <<"2", "0", "2", "4", "-", "Q", "2">>
P_2024Q5 == <<"2", "0", "2", "4", "-", "Q", "5">>
P_2024_1 == <<"2", "0", "2", "4", "-", "1">>

\* the --period and --label arguments the operator may pass
PeriodArgs == {P_2024Q1, P_2024Q2, P_2024Q5, P_2024_1}
LabelArgs == Labels \cup {"No Such Label"}

\* what an invocation leaves behind for the operator: raised (a CommandError
\* or another exception left handle, exit status 1), style of the last line written
PayoutOutcome(label_name, period, preview, existing, raised, style, summary) ==
  <<[label |-> label_name, period |-> period, preview |-> preview, existing |-> existing,
     raised |-> raised, style |-> style, summary |-> summary]>>

\* manage.py finances_payout --label --period [--preview]
FinancesPayout(label_name, period, preview) ==
  \E p \in {ParsePeriod(period)} :
  \E existing \in {ExistingPayout(payoutRuns, p.year, p.quarter)} :
  \E calc \in {CalculatePayouts(PeriodEvents(events, p.year, p.quarter), DefaultRatePercent)} :
  \E run \in {CreatePayoutRun(payoutRuns, p.year, p.quarter)} :
      /\ IF ~p.ok \/ label_name \notin Labels
         THEN /\ payoutOut' = PayoutOutcome(label_name, period, preview, FALSE, TRUE, "ERROR", {})
              /\ UNCHANGED <<payoutRuns, payoutLines, artists>>
         ELSE IF existing # NoRef /\ ~preview
         THEN /\ payoutOut' = PayoutOutcome(label_name, period, preview, TRUE, FALSE, "WARNING", {})
              /\ UNCHANGED <<payoutRuns, payoutLines, artists>>
         ELSE IF ~ShouldPersist(preview)
         THEN /\ payoutOut' = PayoutOutcome(label_name, period, preview, existing # NoRef,
                                            FALSE, "NONE", calc)
              /\ UNCHANGED <<payoutRuns, payoutLines, artists>>
         ELSE IF ~run.ok
         THEN /\ payoutOut' = PayoutOutcome(label_name, period, preview, existing # NoRef,
                                            TRUE, "ERROR", calc)
              /\ UNCHANGED <<payoutRuns, payoutLines, artists>>
         ELSE /\ payoutRuns' = run.runs
              /\ artists' = artists \cup {"Various Artists"}
              /\ payoutLines' = CreatePayoutLines(payoutLines, Len(run.runs), calc)
              /\ payoutOut' = PayoutOutcome(label_name, period, preview, existing # NoRef,
                                            FALSE, "SUCCESS", calc)
      /\ UNCHANGED <<pipeVars, dwVars, concVars>>

NextPayout ==
  \E label_name \in LabelArgs : \E period \in PeriodArgs : \E preview \in BOOLEAN :
    FinancesPayout(label_name, period, preview)

SpecPayout == InitPayout /\ [][NextPayout]_vars


\* Bandcamp sales on both sides of the end of the year
C_dec31 == <<"1", "2", "/", "3", "1", "/", "2", "0", "2", "4">>
C_jan1 == <<"1", "/", "1", "/", "2", "0", "2", "5">>

BcDec31 == [date |-> C_dec31, amount |-> C_3d00, total |-> C_3d00, quantity |-> C_1,
            currency |-> "USD", item_type |-> "album"]
BcJan1 == [date |-> C_jan1, amount |-> C_5d01, total |-> C_5d01, quantity |-> C_1,
           currency |-> "EUR", item_type |-> "track"]

QuarterBandcampContents ==
  {<<BcA>>, <<BcMar31, BcApr1>>, <<BcDec31, BcJan1>>, <<BcEur, BcA, BcDec31>>,
   <<BcA, BcMar31, BcApr1, BcDec31, BcJan1>>}

InitQuarters ==
  /\ \E bc \in {File(r) : r \in QuarterBandcampContents} :
       \E dist \in {NoFile} \cup {File(r) : r \in PayoutDistContents} :
         PipelineNormalized(bc, dist)
  /\ InitPayoutTables
  /\ InitWarehouse
  /\ InitProcs

P_2024Q4 == <<"2", "0", "2", "4", "-", "Q", "4">>
P_2025Q1 == <<"2", "0", "2", "5", "-", "Q", "1">>

QuarterArgs == {P_2024Q1, P_2024Q2, P_2024Q4, P_2025Q1}

NextQuarters ==
  \E label_name \in Labels : \E period \in QuarterArgs : \E preview \in BOOLEAN :
    FinancesPayout(label_name, period, preview)

SpecQuarters == InitQuarters /\ [][NextQuarters]_vars

RECURSIVE CreateSomePayoutLines(_, _, _, _)
\* create_payout_lines left by an exception after n lines were created
CreateSomePayoutLines(lines, run_id, calc, n) ==
  IF n = 0 \/ calc = {} THEN lines
  ELSE LET d == CHOOSE x \in calc : TRUE
       IN  CreateSomePayoutLines(
             Append(lines, [payout_run |-> run_id, artist |-> "Various Artists",
                            amount_base |-> d.artist_payout,
                            amount_original |-> d.artist_payout,
                            original_currency |-> d.currency,
                            fx_rate_used |-> 1]),
             run_id, calc \ {d}, n - 1)

\* a block that leaves its writes in the tables when an exception leaves it
LeftAsWritten(before, written) == written

\* handle, line 86: with transaction.atomic().  An exception that leaves the
\* block (or the end of the process inside it) rolls back what the block wrote
TransactionAtomic(before, written) == before

\* manage.py finances_payout --label --period, when the statement number fail_at
\* of create_payout_lines raises: 0 is the get_or_create of the placeholder
\* artist, k the create of the k-th line
FinancesPayoutFails(label_name, period) ==
  \E p \in {ParsePeriod(period)} :
  \E calc \in {CalculatePayouts(PeriodEvents(events, p.year, p.quarter), DefaultRatePercent)} :
  \E run \in {CreatePayoutRun(payoutRuns, p.year, p.quarter)} :
  \E fail_at \in 0..Cardinality(calc) :
  \E db \in {TransactionAtomic(
               [runs |-> payoutRuns, lines |-> payoutLines, artists |-> artists],
               [runs |-> run.runs,
                lines |-> CreateSomePayoutLines(payoutLines, Len(run.runs), calc, fail_at - 1),
                artists |-> IF fail_at = 0 THEN artists
                            ELSE artists \cup {"Various Artists"}])} :
      /\ p.ok /\ label_name \in Labels
      /\ run.ok
      /\ payoutRuns' = db.runs
      /\ payoutLines' = db.lines
      /\ artists' = db.artists
      /\ payoutOut' = PayoutOutcome(label_name, period, FALSE, FALSE, TRUE, "NONE", calc)
      /\ UNCHANGED <<pipeVars, dwVars, concVars>>

NextPayoutFails ==
  \/ NextPayout
  \/ \E label_name \in LabelArgs : \E period \in PeriodArgs :
       FinancesPayoutFails(label_name, period)

SpecPayoutFails == InitPayout /\ [][NextPayoutFails]_vars

\* the operator keeps running the command, whatever becomes of a run
SpecPayoutLive == SpecPayout /\ WF_vars(NextPayout)

\* ------------------------------------------------------------ exchange rates
\* A rate to BRL is kept in hundredths (550 is 5.50 BRL for one unit).
\* ExchangeRateService._get_fallback_rate
FallbackRate(from_currency) ==
  CASE from_currency = "USD" -> 550
    [] from_currency = "EUR" -> 600
    [] from_currency = "GBP" -> 700
    [] OTHER -> 100

\* What the request to exchangerate-api.com may end in.  "request_failed": a
\* RequestException (no connection, a timeout, an HTTP error status);
\* "not_json": a body that is no JSON; "no_rate": JSON without rates.BRL;
\* "not_object": JSON that is no object, or whose rates is none; "bad_rate": a
\* rates.BRL that is no number; "ok": a rate
AnswerKinds == {"request_failed", "not_json", "no_rate", "not_object", "bad_rate"}
NoAnswer == [kind |-> "request_failed", brl |-> 0]
ApiAnswers(from_currency) ==
  {[kind |-> k, brl |-> 0] : k \in AnswerKinds}
    \cup {[kind |-> "ok", brl |-> IF from_currency = "USD" THEN 540 ELSE 610]}

\* ExchangeRateService.get_rate_to_brl: [rate, cache, fallback, raised].
\* fallback: _get_fallback_rate was taken, which logs the warning "Using fallback
\* exchange rate".  raised: an exception left the method, because data.get or
\* rates.get raises AttributeError, and Decimal(str(brl_rate)) raises
\* decimal.InvalidOperation, neither of which the except clauses name
GetRateToBrl(cache, from_currency, answer) ==
  IF cache[from_currency] # <<>>
  THEN [rate |-> cache[from_currency][1], cache |-> cache, fallback |-> FALSE,
        raised |-> FALSE]
  ELSE IF answer.kind \in {"request_failed", "not_json", "no_rate"}
  THEN [rate |-> FallbackRate(from_currency), cache |-> cache, fallback |-> TRUE,
        raised |-> FALSE]
  ELSE IF answer.kind \in {"not_object", "bad_rate"}
  THEN [rate |-> 0, cache |-> cache, fallback |-> FALSE, raised |-> TRUE]
  ELSE [rate |-> answer.brl, cache |-> [cache EXCEPT ![from_currency] = <<answer.brl>>],
        fallback |-> FALSE, raised |-> FALSE]

\* ----------------------------------------------------------- build_dw_revenue
\* Amounts of the source tables are in hundredths.  A converted amount is in
\* ten-thousandths: four decimal places of the six that numeric(18,6) keeps.
RoundDiv(n, d) == (2 * n + d) \div (2 * d)

\* amount * rate, for a rate given as the quotient num / den of two rates to BRL
TimesRate(amount, num, den) == RoundDiv(amount * num * 100, den)

\* amount * rate to BRL
TimesBrl(amount, rate) == amount * rate

\* an amount copied into a converted column as it is
AsIs(amount) == amount * 100

\* the row the first INSERT ... SELECT makes of a row of raw.bandcamp_event_raw
BandcampFact(r, rates) ==
  [occurred_at |-> r.occurred_at, source |-> "bandcamp", platform |-> "Bandcamp",
   quantity |-> r.quantity, revenue_base |-> r.amount_received, base_ccy |-> "USD",
   revenue_brl |-> TimesBrl(r.amount_received, rates.usd),
   revenue_usd |-> AsIs(r.amount_received),
   revenue_eur |-> TimesRate(r.amount_received, rates.usd, rates.eur)]

RECURSIVE BandcampFacts(_, _)
\* ... FROM raw.bandcamp_event_raw WHERE item_type IN ('track','album','bundle')
BandcampFacts(raw, rates) ==
  IF raw = <<>> THEN <<>>
  ELSE (IF Head(raw).item_type \in {"track", "album", "bundle"}
        THEN <<BandcampFact(Head(raw), rates)>> ELSE <<>>)
       \o BandcampFacts(Tail(raw), rates)

\* the row the second INSERT ... SELECT makes of a row of staging.distribution_event
StagingFact(r, rates) ==
  [occurred_at |-> r.occurred_at, source |-> "distribution", platform |-> "Distribution",
   quantity |-> r.quantity, revenue_base |-> r.net_amount_eur, base_ccy |-> "EUR",
   revenue_brl |-> TimesBrl(r.net_amount_eur, rates.eur),
   revenue_usd |-> TimesRate(r.net_amount_eur, rates.eur, rates.usd),
   revenue_eur |-> AsIs(r.net_amount_eur)]

StagingFacts(stg, rates) == [i \in 1..Len(stg) |-> StagingFact(stg[i], rates)]

\* the row the fallback INSERT ... SELECT makes of a finances_revenueevent row
\* (1 / rate to BRL is the quotient 100 / rate of the model)
EventFact(e, rates) ==
  [occurred_at |-> e.occurred_at, source |-> "distribution", platform |-> "Distribution",
   quantity |-> e.quantity, revenue_base |-> e.net_amount_base, base_ccy |-> e.base_ccy,
   revenue_brl |-> CASE e.base_ccy = "USD" -> TimesBrl(e.net_amount_base, rates.usd)
                     [] e.base_ccy = "EUR" -> TimesBrl(e.net_amount_base, rates.eur)
                     [] OTHER -> AsIs(e.net_amount_base),
   revenue_usd |-> CASE e.base_ccy = "USD" -> AsIs(e.net_amount_base)
                     [] e.base_ccy = "EUR" -> TimesRate(e.net_amount_base, rates.eur, rates.usd)
                     [] OTHER -> TimesRate(e.net_amount_base, 100, rates.usd),
   revenue_eur |-> CASE e.base_ccy = "EUR" -> AsIs(e.net_amount_base)
                     [] e.base_ccy = "USD" -> TimesRate(e.net_amount_base, rates.usd, rates.eur)
                     [] OTHER -> TimesRate(e.net_amount_base, 100, rates.eur)]

RECURSIVE EventFacts(_, _)
\* ... FROM finances_revenueevent rev JOIN finances_platform p ... WHERE p.name = 'Distribution'
EventFacts(evs, rates) ==
  IF {e \in evs : e.platform = "Distribution"} = {} THEN <<>>
  ELSE LET e == CHOOSE x \in evs : x.platform = "Distribution"
       IN  <<EventFact(e, rates)>> \o EventFacts(evs \ {e}, rates)

\* lines 52-121: staging when it has rows, the normalized events otherwise
DistributionFacts(stg, evs, rates) ==
  IF Len(stg) > 0 THEN StagingFacts(stg, rates) ELSE EventFacts(evs, rates)

RECURSIVE SumColumn(_, _)
SumColumn(facts, col) ==
  IF facts = <<>> THEN 0 ELSE Head(facts)[col] + SumColumn(Tail(facts), col)

\* the totals the views report: Sum('revenue_brl'), Sum('revenue_usd'), Sum('revenue_eur')
Totals(facts) ==
  [brl |-> SumColumn(facts, "revenue_brl"),
   usd |-> SumColumn(facts, "revenue_usd"),
   eur |-> SumColumn(facts, "revenue_eur")]


\* ------------------------------------------------- the warehouse build, running
\* rows of raw.bandcamp_event_raw and staging.distribution_event
RawTrack == [occurred_at |-> <<2024, 1, 15>>, item_type |-> "track", quantity |-> 1,
             amount_received |-> 700]
RawAlbum == [occurred_at |-> <<2024, 2, 3>>, item_type |-> "album", quantity |-> 1,
             amount_received |-> 1200]
RawPackage == [occurred_at |-> <<2024, 2, 9>>, item_type |-> "package", quantity |-> 1,
               amount_received |-> 2500]
StgRow == [occurred_at |-> <<2024, 1, 1>>, quantity |-> 10, net_amount_eur |-> 400]

RawContents == {<<>>, <<RawTrack>>, <<RawTrack, RawPackage>>, <<RawTrack, RawAlbum>>}
StagingContents == {<<>>, <<StgRow>>}

\* the event store a build starts from; the fact table has never been built
InitDW ==
  /\ \/ InitPipeline
     \/ PipelineNormalized(File(<<BcA>>), File(<<ZebA, ZebB>>))
  /\ InitPayoutTables
  /\ rawBandcamp \in RawContents
  /\ stagingDist \in StagingContents
  /\ factRevenue = <<>>
  /\ fxCache = [c \in {"USD", "EUR"} |-> <<>>]
  /\ dwPc = "idle"
  /\ dwRates = <<>>
  /\ dwBefore = <<>>
  /\ dwBuilds = <<>>
  /\ dwRead = <<>>
  /\ InitProcs

\* lines 11-12: the two lookups, before the cursor is opened.  An exception
\* of a lookup leaves handle: the build ends before its first statement
DwLookupRates(usd_answer, eur_answer) ==
  LET u == GetRateToBrl(fxCache, "USD", usd_answer)
      e == IF u.raised THEN u ELSE GetRateToBrl(u.cache, "EUR", eur_answer)
  IN  /\ dwPc = "idle"
      /\ Len(dwBuilds) < MaxBuilds
      /\ (fxCache["USD"] # <<>> => usd_answer = NoAnswer)
      /\ (u.raised \/ u.cache["EUR"] # <<>> => eur_answer = NoAnswer)
      /\ fxCache' = e.cache
      /\ dwBefore' = factRevenue
      /\ dwRead' = <<>>
      /\ IF e.raised
         THEN /\ dwRates' = <<>>
              /\ dwPc' = "idle"
              /\ dwBuilds' = Append(dwBuilds, <<>>)
         ELSE /\ dwRates' = <<[usd |-> u.rate, eur |-> e.rate,
                                fallback |-> {c \in {"USD"} : u.fallback}
                                             \cup {c \in {"EUR"} : e.fallback}]>>
              /\ dwPc' = "truncate"
              /\ UNCHANGED dwBuilds
      /\ UNCHANGED <<rawBandcamp, stagingDist, factRevenue>>
      /\ UNCHANGED <<pipeVars, payoutVars, concVars>>

\* line 29: TRUNCATE TABLE dw.fact_revenue, committed as the statement ends
\* (the connection is in autocommit mode and handle opens no transaction)
DwTruncate ==
  /\ dwPc = "truncate"
  /\ factRevenue' = <<>>
  /\ dwPc' = "bandcamp"
  /\ UNCHANGED <<rawBandcamp, stagingDist, fxCache, dwRates, dwBefore, dwBuilds, dwRead>>
  /\ UNCHANGED <<pipeVars, payoutVars, concVars>>

\* lines 32-49, committed as the statement ends
DwInsertBandcamp ==
  /\ dwPc = "bandcamp"
  /\ factRevenue' = factRevenue \o BandcampFacts(rawBandcamp, dwRates[1])
  /\ dwPc' = "distribution"
  /\ UNCHANGED <<rawBandcamp, stagingDist, fxCache, dwRates, dwBefore, dwBuilds, dwRead>>
  /\ UNCHANGED <<pipeVars, payoutVars, concVars>>

\* lines 52-123, committed as the statement ends; the command returns
DwInsertDistribution ==
  /\ dwPc = "distribution"
  /\ factRevenue' = factRevenue \o DistributionFacts(stagingDist, events, dwRates[1])
  /\ dwBuilds' = Append(dwBuilds, <<Totals(factRevenue')>>)
  /\ dwPc' = "idle"
  /\ UNCHANGED <<rawBandcamp, stagingDist, fxCache, dwRates, dwBefore, dwRead>>
  /\ UNCHANGED <<pipeVars, payoutVars, concVars>>

\* The statement about to run raises (the server drops the connection, the
\* statement is cancelled) or the process is killed: handle is left, and what
\* the earlier statements committed stays.
DwFail ==
  /\ dwPc \in {"truncate", "bandcamp", "distribution"}
  /\ dwPc' = "idle"
  /\ dwBuilds' = Append(dwBuilds, <<>>)
  /\ UNCHANGED <<rawBandcamp, stagingDist, factRevenue, fxCache, dwRates, dwBefore, dwRead>>
  /\ UNCHANGED <<pipeVars, payoutVars, concVars>>

\* the table a build that started at the state at hand ends with
FullFacts ==
  IF dwRates = <<>> THEN <<>>
  ELSE BandcampFacts(rawBandcamp, dwRates[1])
       \o DistributionFacts(stagingDist, events, dwRates[1])

\* what views.status selects: count(*) and sum(revenue_base)
TableStats(facts) == [rows |-> Len(facts), sum_revenue_base |-> SumColumn(facts, "revenue_base")]

\* A request to the revenue views (views.py, status) reads dw.fact_revenue on its
\* own connection; during tells whether a build was between its statements.
DwReader ==
  /\ dwRead' = <<[stats |-> TableStats(factRevenue), during |-> dwPc # "idle"]>>
  /\ UNCHANGED <<rawBandcamp, stagingDist, factRevenue, fxCache, dwPc, dwRates, dwBefore,
                 dwBuilds>>
  /\ UNCHANGED <<pipeVars, payoutVars, concVars>>

\* CACHE_TIMEOUT passes for a cached rate
FxCacheExpire(from_currency) ==
  /\ fxCache[from_currency] # <<>>
  /\ fxCache' = [fxCache EXCEPT ![from_currency] = <<>>]
  /\ UNCHANGED <<rawBandcamp, stagingDist, factRevenue, dwPc, dwRates, dwBefore,
                 dwBuilds, dwRead>>
  /\ UNCHANGED <<pipeVars, payoutVars, concVars>>

NextDW ==
  \/ \E usd_answer \in ApiAnswers("USD") : \E eur_answer \in ApiAnswers("EUR") :
       DwLookupRates(usd_answer, eur_answer)
  \/ DwTruncate
  \/ DwInsertBandcamp
  \/ DwInsertDistribution
  \/ DwFail
  \/ DwReader
  \/ \E from_currency \in {"USD", "EUR"} : FxCacheExpire(from_currency)

SpecDW == InitDW /\ [][NextDW]_vars

\* ------------------------------------------------ the Bandcamp API ingest
MaxRaw == 4           \* rows of raw.bandcamp_event_raw

\* the monthly windows of --start 2024-01-01 --end 2024-02-29
Windows == {<<2024, 1>>, <<2024, 2>>}
WindowStart(w) == <<w[1], w[2], 1>>

\* sales as the API returns them
SaleTrack == [date |-> <<2024, 1, 15>>, item_type |-> "track", quantity |-> 1,
              amount_you_received |-> 700]
SaleAlbum == [date |-> <<2024, 2, 3>>, item_type |-> "album", quantity |-> 1,
              amount_you_received |-> 1200]
SaleUndated == [date |-> NULL, item_type |-> "track", quantity |-> 2,
                amount_you_received |-> 300]

\* what get_sales_report answers for every window of a date range
ApiReports ==
  {[w \in Windows |-> IF w = <<2024, 1>> THEN <<SaleTrack>> ELSE <<>>],
   [w \in Windows |-> IF w = <<2024, 1>> THEN <<SaleTrack>> ELSE <<SaleAlbum>>],
   [w \in Windows |-> IF w = <<2024, 1>> THEN <<>> ELSE <<SaleAlbum, SaleUndated>>]}

\* lines 52-76: the fields written to the row (date, or the first day of the window)
RawOf(r, w) ==
  [occurred_at |-> IF r.date = NULL THEN WindowStart(w) ELSE r.date,
   item_type |-> r.item_type, quantity |-> r.quantity,
   amount_received |-> r.amount_you_received]

RawRows(rows, w) == [i \in 1..Len(rows) |-> RawOf(rows[i], w)]

\* lines 63-77: update_or_create(id=None, defaults=...).  No row has a null id,
\* so the lookup finds nothing and a row is created
UpdateOrCreateRaw(raw, row) == Append(raw, row)

RECURSIVE StoreRows(_, _)
StoreRows(raw, rows) ==
  IF rows = <<>> THEN raw ELSE StoreRows(UpdateOrCreateRaw(raw, Head(rows)), Tail(rows))

\* lines 37-79: window after window; a window whose request failed gives no rows
FetchAndStore(raw, report, failing) ==
  LET Rows(w) == IF w \in failing THEN <<>> ELSE RawRows(report[w], w)
  IN  StoreRows(StoreRows(raw, Rows(<<2024, 1>>)), Rows(<<2024, 2>>))

\* manage.py ingest_bandcamp_api --start 2024-01-01 --end 2024-02-29
IngestBandcampApi(report, failing) ==
  /\ dwPc = "idle"
  /\ \E raw \in {FetchAndStore(rawBandcamp, report, failing)} :
       /\ Len(raw) <= MaxRaw
       /\ rawBandcamp' = raw
  /\ UNCHANGED <<stagingDist, factRevenue, fxCache, dwPc, dwRates, dwBefore, dwBuilds, dwRead>>
  /\ UNCHANGED <<pipeVars, payoutVars, concVars>>

InitApi ==
  /\ InitPipeline
  /\ InitPayoutTables
  /\ InitWarehouse
  /\ InitProcs

\* the operator ingests from the API and rebuilds the warehouse, one command
\* after the other
NextApi ==
  \/ \E report \in ApiReports : \E failing \in SUBSET Windows :
       IngestBandcampApi(report, failing)
  \/ \E usd_answer \in {NoAnswer, [kind |-> "ok", brl |-> 540]} :
       DwLookupRates(usd_answer, NoAnswer)
  \/ DwTruncate
  \/ DwInsertBandcamp
  \/ DwInsertDistribution

SpecApi == InitApi /\ [][NextApi]_vars


\* ======================================================================
\* Claims about ingest, registry and normalization
\* ======================================================================

EventsOf(sf) == {e \in events : e.source_file = sf.id}

\* the row ordinals of a canonical file that the row handler turns into an event
AcceptedOrdinals(sf, rows) ==
  {i \in 1..Len(rows) :
     (IF sf.datasource = "bandcamp"
      THEN ProcessBandcampRow(sf, rows[i], ComputeRowHash(sf, rows[i]))
      ELSE ProcessDistributionRow(sf, rows[i], ComputeRowHash(sf, rows[i]))).kind = "event"}

NormalizeStep == FinancesNormalize(TRUE) \/ FinancesNormalize(FALSE)

\* C1: a normalization run without --force that follows a committed run over
\* the same source files and canonical files writes no revenue event: the set
\* of events after it is the set before it.
C1_SecondRunWritesNothing ==
  [][(normRuns >= 1 /\ FinancesNormalize(FALSE)) => events' = events]_vars

\* a second committed run has gone over unchanged inputs that hold events
C1_Witness == normRuns = 2 /\ events # {} /\ Len(batches) = 2

\* C2: once the source files are normalized, every source file has exactly one
\* event per accepted row of its canonical file (none dropped, none twice),
\* also when two rows of the file are equal.
C2_OneEventPerAcceptedRow ==
  normRuns >= 1 =>
    \A i \in 1..Len(sourceFiles) :
      LET cf == FindCanonicalFile(sourceFiles[i], canonDist, canonBandcamp)
      IN  cf # NoFile =>
            Cardinality(EventsOf(sourceFiles[i]))
              = Cardinality(AcceptedOrdinals(sourceFiles[i], RowsOf(cf)))

\* C3: an ingest run or a normalization run (with or without --force) keeps
\* every revenue event that existed before it, field for field, whatever was
\* registered before; in particular when a changed file arrives for a
\* (vendor, period, statement type) that already has a source file.
C3_PriorEventsKept ==
  [][(FinancesIngest \/ NormalizeStep) => events \subseteq events']_vars

SameStatement(a, b) ==
  /\ a.datasource = b.datasource
  /\ a.period_start = b.period_start
  /\ a.statement_type = b.statement_type

\* a changed file was registered and normalized next to the statement it follows,
\* and both have events
C3_Witness ==
  \E i, j \in 1..Len(sourceFiles) :
    /\ i < j
    /\ SameStatement(sourceFiles[i], sourceFiles[j])
    /\ sourceFiles[i].sha256 # sourceFiles[j].sha256
    /\ EventsOf(sourceFiles[i]) # {}
    /\ EventsOf(sourceFiles[j]) # {}
    /\ normRuns >= 1 /\ Len(batches) = 2

\* the record registered last before j for the same (vendor, period, statement type)
IsPrior(i, j) ==
  /\ i < j
  /\ SameStatement(sourceFiles[i], sourceFiles[j])
  /\ \A k \in (i + 1)..(j - 1) : ~SameStatement(sourceFiles[k], sourceFiles[j])

\* C4: a source file whose content hash differs from the most recent file of the
\* same (vendor, period, statement type) has correction_of pointing at that
\* file, which is still registered.
C4_CorrectionChained ==
  \A j \in 1..Len(sourceFiles) : \A i \in 1..Len(sourceFiles) :
    (IsPrior(i, j) /\ sourceFiles[i].sha256 # sourceFiles[j].sha256)
      => sourceFiles[j].correction_of = <<sourceFiles[i].id>>

\* C5: no two source file records share (vendor, content hash).
C5_VendorHashUnique ==
  \A i, j \in 1..Len(sourceFiles) :
    (sourceFiles[i].datasource = sourceFiles[j].datasource
       /\ sourceFiles[i].sha256 = sourceFiles[j].sha256) => i = j

\* every file an ingest run may pick now has an entry of its path and its hash
\* in the sidecar already: it was ingested before with the content it has now
InMeta(entries, path, sha) ==
  \E k \in 1..Len(entries) : entries[k].path = path /\ entries[k].sha256 = sha

AlreadyIngested ==
  /\ \A g \in ActiveGroups(disk) : \A f \in Best(disk, g) :
       InMeta(metaDist[g[1]], f, ComputeSha256(RowsOf(disk[f])))
  /\ disk[BandcampFileId] # NoFile =>
       InMeta(metaBandcamp, BandcampFileId, ComputeSha256(RowsOf(disk[BandcampFileId])))

\* C6: an ingest-and-register run over files whose content was ingested before
\* creates no source file record and changes none (path, sha256, bytes and the
\* rest), although the sidecar gets one more entry per run.
C6_ReingestRegistersNothing ==
  [][(AlreadyIngested /\ FinancesIngest) => sourceFiles' = sourceFiles]_vars

\* a sidecar holds the same entry twice (the run was repeated over an unchanged
\* file) and one record stands for that file
C6_Witness ==
  \E p \in Periods : \E a, b \in 1..Len(metaDist[p]) :
    /\ a < b
    /\ metaDist[p][a] = metaDist[p][b]
    /\ Cardinality({i \in 1..Len(sourceFiles) :
                      /\ sourceFiles[i].path = metaDist[p][a].path
                      /\ sourceFiles[i].sha256 = metaDist[p][a].sha256}) = 1


\* ======================================================================
\* Claims about payouts
\* ======================================================================

SamePayoutKey(a, b) ==
  a.period_year = b.period_year /\ a.period_quarter = b.period_quarter

\* C7: a finances_payout invocation without --preview for a (label, year,
\* quarter) that has a payout run already ends as an error (an exception leaves
\* handle), and no two payout runs share (label, year, quarter).
C7_DuplicatePayoutIsError ==
  /\ (payoutOut # <<>> /\ payoutOut[1].existing /\ ~payoutOut[1].preview)
       => payoutOut[1].raised
  /\ \A i, j \in 1..Len(payoutRuns) : SamePayoutKey(payoutRuns[i], payoutRuns[j]) => i = j

PreviewStep ==
  \E label_name \in LabelArgs : \E period \in PeriodArgs :
    FinancesPayout(label_name, period, TRUE)

LinesOf(run_id) == {k \in 1..Len(payoutLines) : payoutLines[k].payout_run = run_id}

\* the summary of the last invocation, a preview of a period that has a run,
\* holds the groups and the artist shares that run persisted as its lines
PreviewAgreesWithRun ==
  (payoutOut # <<>> /\ payoutOut[1].preview /\ payoutOut[1].existing /\ ~payoutOut[1].raised) =>
    LET p     == ParsePeriod(payoutOut[1].period)
        lines == LinesOf(ExistingPayout(payoutRuns, p.year, p.quarter)[1])
    IN  /\ Cardinality(lines) = Cardinality(payoutOut[1].summary)
        /\ \A d \in payoutOut[1].summary : \E k \in lines :
             /\ payoutLines[k].amount_base = d.artist_payout
             /\ payoutLines[k].original_currency = d.currency

\* C8: a --preview invocation leaves the payout runs, the payout lines and the
\* artists as they were, whether or not the period has a run, and what it
\* computes for a period that has a run is what that run persisted.
C8_PreviewPersistsNothing ==
  /\ [][PreviewStep => UNCHANGED <<payoutRuns, payoutLines, artists>>]_vars
  /\ []PreviewAgreesWithRun

\* a preview of a period that has a run and revenue in two groups has just ended,
\* and a period without a run is left
C8_Witness ==
  /\ payoutOut # <<>>
  /\ payoutOut[1].preview /\ payoutOut[1].existing /\ ~payoutOut[1].raised
  /\ Cardinality(payoutOut[1].summary) >= 2
  /\ Len(payoutRuns) = 1
  /\ Len(payoutLines) >= 2


\* ======================================================================
\* Claims about the warehouse
\* ======================================================================

\* the totals of the builds that completed
CompletedTotals == {dwBuilds[i][1] : i \in {j \in 1..Len(dwBuilds) : dwBuilds[j] # <<>>}}

\* C9: the builds that completed over one event store (the raw, staging and
\* revenue event tables do not change between them) report the same totals in
\* BRL, USD and EUR, whatever the rate lookups returned.
C9_RebuildTotalsAgree == Cardinality(CompletedTotals) <= 1

\* C10: a reader that runs while a build is between its statements sees the
\* fact table of before the build or the one the build ends with, never an
\* empty or a half filled one; and after a build that failed the fact table is
\* the one of before the build.
C10_RebuildIsOneTransaction ==
  /\ (dwRead # <<>> /\ dwRead[1].during)
       => dwRead[1].stats \in {TableStats(dwBefore), TableStats(FullFacts)}
  /\ (dwPc = "idle" /\ dwBuilds # <<>> /\ dwBuilds[Len(dwBuilds)] = <<>>)
       => factRevenue = dwBefore

\* what a fact and a revenue event both carry of one sale
SaleOfFact(f) ==
  [occurred_at |-> f.occurred_at, quantity |-> f.quantity, amount |-> f.revenue_base,
   ccy |-> f.base_ccy]

SaleOfEvent(e) ==
  [occurred_at |-> e.occurred_at, quantity |-> e.quantity, amount |-> e.net_amount_base,
   ccy |-> e.base_ccy]

FactsOfPlatform(platform) == {i \in 1..Len(factRevenue) : factRevenue[i].platform = platform}

EventsOfPlatform(platform) == {e \in events : e.platform = platform}

LastBuildCompleted == dwPc = "idle" /\ dwBuilds # <<>> /\ dwBuilds[Len(dwBuilds)] # <<>>

\* C11: after a build that completed, the facts of every vendor that has
\* normalized revenue events are those events: as many facts as events, and the
\* same sales (date, quantity, amount, currency); raw and staging rows do not
\* decide them.
C11_FactsFromEvents ==
  LastBuildCompleted =>
    \A platform \in {"Bandcamp", "Distribution"} :
      EventsOfPlatform(platform) # {} =>
        /\ Cardinality(FactsOfPlatform(platform)) = Cardinality(EventsOfPlatform(platform))
        /\ {SaleOfFact(factRevenue[i]) : i \in FactsOfPlatform(platform)}
             = {SaleOfEvent(e) : e \in EventsOfPlatform(platform)}


\* ======================================================================
\* Claims about decimal canonicalization
\* ======================================================================

\* the statement of the tree and its canonical file
TheStatement == "ZEB_RS_2024-Q1.csv"
TheGroup == <<<<2024, 1>>, "royalty">>
Canonicalized == disk[TheStatement] # NoFile /\ canonDist[TheGroup] # NoFile
RawRow == RowsOf(disk[TheStatement])[1]
CanonRow == RowsOf(canonDist[TheGroup])[1]

\* text without its sign
Unsigned(t) == IF t # <<>> /\ Head(t) \in {"-", "+"} THEN Tail(t) ELSE t

\* a comma-decimal number: digits, '.' between groups of three digits, then
\* one ',' and one or two decimals
IsCommaDecimal(cell) ==
  LET b == Unsigned(Strip(cell))
      commas == {i \in 1..Len(b) : b[i] = ","}
  IN  /\ Cardinality(commas) = 1
      /\ \A i \in 1..Len(b) : b[i] \in Digits \cup {",", "."}
      /\ b[1] \in Digits
      /\ \A c \in commas :
            /\ Len(b) - c \in 1..2
            /\ \A i \in (c + 1)..Len(b) : b[i] \in Digits
            /\ \A i \in 1..(c - 1) :
                  b[i] = "." => /\ i + 3 < Len(b)
                                /\ \A j \in (i + 1)..(i + 3) : b[j] \in Digits
                                /\ b[i + 4] \in {".", ","}

\* the hundredths a comma-decimal number denotes
CommaDecimalValue(cell) ==
  LET t == Strip(cell)
      v == UnsignedHundredths(Replace(SeqRemove(Unsigned(t), "."), ",", "."))
  IN  IF Head(t) = "-" THEN 0 - v ELSE v

\* C13: the canonical file holds, for a comma-decimal amount of the statement
\* (with or without '.' between the thousands, as in "1.234,56"), a dot-decimal
\* literal of the same number.
C13_CommaDecimalCanonical ==
  (Canonicalized /\ IsCommaDecimal(RawRow.Rev)) =>
    ParseDecimal(CanonRow.Rev) = [ok |-> TRUE, val |-> CommaDecimalValue(RawRow.Rev)]

\* text that is a number: a sign or none, then digits with ',' and '.' among them
IsNumberText(cell) ==
  LET b == Unsigned(Strip(cell))
  IN  /\ \E i \in 1..Len(b) : b[i] \in Digits
      /\ \A i \in 1..Len(b) : b[i] \in Digits \cup {",", "."}

\* C14: a cell of the statement that is not a number (an address with a comma,
\* an identifier with commas or hyphens) is in the canonical file character for
\* character.
C14_NonNumericUntouched ==
  Canonicalized =>
    \A c \in DOMAIN RawRow : ~IsNumberText(RawRow[c]) => CanonRow[c] = RawRow[c]


\* ======================================================================
\* Claims about the run report and failures of normalization
\* ======================================================================

\* the first run of finances_normalize has just ended, and it ended well
FirstRunReported == normReport # <<>> /\ Len(batches) = 1 /\ ~normReport[1].failed

\* C12: in the report of a first normalization run, the rows of every file are
\* all accounted for: the rows counted as records (transactions) and the rows
\* reported with a warning (the only other trace a row leaves) add up to the
\* rows of the file, so a row that became no event is counted or reported.
C12_RowCountsPartition ==
  FirstRunReported =>
    \A k \in 1..Len(normReport[1].files) :
      normReport[1].files[k].total_rows
        = normReport[1].files[k].records + normReport[1].files[k].warnings

\* a run that failed (an exception left it, or the process was killed) has just
\* ended
FailedRunReported == normReport # <<>> /\ normReport[1].failed

\* a run that an exception left has just ended
ThrownRunReported == FailedRunReported /\ batches[Len(batches)].status = "failed"

\* the source files that have a canonical file
WithCanonicalFile ==
  {i \in 1..Len(sourceFiles) :
     FindCanonicalFile(sourceFiles[i], canonDist, canonBandcamp) # NoFile}

\* C15: after a run in which one file threw, the records the run reported for
\* the files it had gone through before are committed events of those files,
\* and every other file that has a canonical file was gone through as well
\* (all but the one that threw).
C15_FileIsUnitOfAtomicity ==
  ThrownRunReported =>
    /\ \A k \in 1..Len(normReport[1].files) :
         Cardinality(EventsOf(sourceFiles[normReport[1].files[k].source_file]))
           >= normReport[1].files[k].records
    /\ Len(normReport[1].files) >= Cardinality(WithCanonicalFile) - 1

\* the event sets one run without a failure leaves, started with no events over
\* the source files and canonical files at hand
UninterruptedRuns(force) ==
  {NormalizeData({}, sourceFiles, order, canonDist, canonBandcamp, force, NoFail).evs :
     order \in Orderings(sourceFiles, 1..Len(sourceFiles))}

\* C16: when the first run over a tree failed (a read raised before or part-way
\* through a file, or the transaction broke), the run that follows it over the
\* same source files and canonical files, with or without --force, ends with
\* the events one uninterrupted run of that kind leaves: none missing, none twice.
C16_RerunAfterFailure ==
  [][\A force \in BOOLEAN :
       (FailedRunReported /\ Len(batches) = 1 /\ FinancesNormalize(force))
         => events' \in UninterruptedRuns(force)]_vars

\* a run failed and the run after it completed and left events
C16_Witness ==
  /\ Len(batches) = 2
  /\ batches[1] # [status |-> "completed", finished |-> TRUE]
  /\ batches[2] = [status |-> "completed", finished |-> TRUE]
  /\ normReport # <<>> /\ ~normReport[1].failed
  /\ normRuns = 1
  /\ Cardinality(events) >= 2


\* ------------------------------------------ Claims about persisted events
\* C17: a Revenue Event, once persisted, is never mutated or deleted: whatever
\* command runs (normalize with or without --force, rebuild, backfill,
\* cleanup), every event persisted before it is there afterwards with all its
\* fields unchanged.
C17_EventsNeverMutatedOrDeleted == [][events \subseteq events']_vars


\* ---------------------------------- Claims about commands run concurrently
\* C18: two source-registration runs interleaved in any order over the same
\* metadata cannot create two Source File records for the same content
\* (datasource, path and digest).
C18_NoDuplicateSourceFile ==
  \A i, j \in 1..Len(sourceFiles) :
    SameContent(sourceFiles[i].datasource, sourceFiles[i].path, sourceFiles[i].sha256,
                sourceFiles[j].datasource, sourceFiles[j].path, sourceFiles[j].sha256)
      => i = j


\* the events one run alone writes from the tree as it is
AloneEvents ==
  NormalizedEvents([disk |-> disk, canonDist |-> canonDist, canonBandcamp |-> canonBandcamp,
                    metaDist |-> metaDist, metaBandcamp |-> metaBandcamp,
                    sourceFiles |-> sourceFiles])

\* C19: under any interleaving of two normalization runs, with or without
\* --force, no two persisted events have the same identity hash, no run has the
\* rest of its file aborted by a lost check-then-insert, and once both runs
\* are over no row is lost.
C19_ConcurrentNormalize ==
  /\ \A e1, e2 \in events : e1.row_hash = e2.row_hash => e1 = e2
  /\ \A p \in Procs : ~procs[p].broken /\ ~procs[p].raised
  /\ (\A p \in Procs : procs[p].pc = "done")
       => {e.row_hash : e \in AloneEvents} \subseteq {e.row_hash : e \in events}


\* ------------------------------------------ Claims about zero-amount rows
\* a row of a canonical file that is a transaction and whose amounts are all zero
ZeroAmountRow(sf, row) ==
  IF sf.datasource = "bandcamp"
  THEN /\ Strip(row.date) # <<>>
       /\ ParseDecimal(row.amount) = [ok |-> TRUE, val |-> 0]
       /\ ParseDecimal(row.total) = [ok |-> TRUE, val |-> 0]
  ELSE /\ ExtractDecimal(row.Rev) = [ok |-> TRUE, val |-> 0]
       /\ ExtractDecimal(row.Net) = [ok |-> TRUE, val |-> 0]

\* the source files with a canonical file that holds such a row
ZeroAmountFiles ==
  {i \in 1..Len(sourceFiles) :
     LET cf == FindCanonicalFile(sourceFiles[i], canonDist, canonBandcamp)
     IN  /\ cf # NoFile
         /\ \E k \in 1..Len(RowsOf(cf)) : ZeroAmountRow(sourceFiles[i], RowsOf(cf)[k])}

\* C20: a row accepted as a transaction whose amounts are all zero is
\* preserved: after a normalization run over the tree there is a Revenue Event
\* for it, whichever vendor the file is from.
C20_ZeroAmountPreserved ==
  FirstRunReported =>
    \A i \in ZeroAmountFiles :
      LET rows == RowsOf(FindCanonicalFile(sourceFiles[i], canonDist, canonBandcamp))
      IN  \A k \in 1..Len(rows) :
            ZeroAmountRow(sourceFiles[i], rows[k])
              => RowHashExists(events, ComputeRowHash(sourceFiles[i], rows[k]))


\* ------------------------------------- Claims about unparseable amounts
\* the amount fields of a row of a canonical file, as the row handler reads them
AmountFields(sf, row) ==
  IF sf.datasource = "bandcamp"
  THEN {SeqRemove(SeqRemove(row.amount, "$"), ","), SeqRemove(SeqRemove(row.total, "$"), ",")}
  ELSE {Replace(SeqRemove(row.Rev, " "), ",", "."), Replace(SeqRemove(row.Net, " "), ",", ".")}

\* a transaction row with an amount field that is there and is no decimal literal
UnparseableAmountRow(sf, row) ==
  /\ sf.datasource = "bandcamp" => Strip(row.date) # <<>>
  /\ \E cell \in AmountFields(sf, row) : cell # <<>> /\ ~ParseDecimal(cell).ok

\* the source files whose canonical file holds such a row
UnparseableAmountFiles ==
  {i \in 1..Len(sourceFiles) :
     LET cf == FindCanonicalFile(sourceFiles[i], canonDist, canonBandcamp)
     IN  /\ cf # NoFile
         /\ \E k \in 1..Len(RowsOf(cf)) : UnparseableAmountRow(sourceFiles[i], RowsOf(cf)[k])}

\* C21: when a numeric amount field of a transaction row cannot be parsed, the
\* row is still normalized into a Revenue Event (the amount taken as zero): after
\* a normalization run over the tree the row has its event and the run has not
\* failed.
C21_UnparseableAmountIsZero ==
  (normReport # <<>> /\ Len(batches) = 1) =>
    \A i \in UnparseableAmountFiles :
      LET rows == RowsOf(FindCanonicalFile(sourceFiles[i], canonDist, canonBandcamp))
      IN  /\ ~normReport[1].failed
          /\ \A k \in 1..Len(rows) :
               UnparseableAmountRow(sourceFiles[i], rows[k])
                 => RowHashExists(events, ComputeRowHash(sourceFiles[i], rows[k]))


\* ------------------------------------ Claims about the exchange-rate lookup
\* C22: when the exchange-rate lookup of a currency is unavailable (the request
\* fails, the response cannot be parsed or holds no rate), the lookup returns
\* the static fallback rate of the currency, flagged as approximate, and the
\* build goes on to its statements.
C22_FallbackRateNonFatal ==
  [][\A usd_answer \in ApiAnswers("USD") : \A eur_answer \in ApiAnswers("EUR") :
       DwLookupRates(usd_answer, eur_answer) =>
         /\ (fxCache["USD"] = <<>> /\ usd_answer.kind # "ok")
              => /\ dwPc' = "truncate"
                 /\ dwRates'[1].usd = FallbackRate("USD")
                 /\ "USD" \in dwRates'[1].fallback
         /\ (fxCache["EUR"] = <<>> /\ eur_answer.kind # "ok")
              => /\ dwPc' = "truncate"
                 /\ dwRates'[1].eur = FallbackRate("EUR")
                 /\ "EUR" \in dwRates'[1].fallback]_vars


\* -------------------------------------- Claims about the Payout Run status
\* the place of a status on the path created -> (lines computed) -> finalized;
\* 'draft' is what a created run holds
StatusRank(status) ==
  CASE status = "draft" -> 1 [] status = "created" -> 1 [] status = "finalized" -> 2
    [] OTHER -> 0

\* the runs the periods of the model can have
RunIds == 1..Cardinality({p \in PeriodArgs : ParsePeriod(p).ok})

\* C23: the status of a Payout Run only moves forward along created ->
\* (lines computed) -> finalized (no run disappears, leaves finalized or enters
\* another status), and a run whose lines have been computed reaches finalized.
C23_PayoutRunStateMachine ==
  /\ [][\A i \in 1..Len(payoutRuns) :
          /\ i <= Len(payoutRuns')
          /\ StatusRank(payoutRuns'[i].status) >= StatusRank(payoutRuns[i].status)
          /\ StatusRank(payoutRuns'[i].status) > 0]_vars
  /\ \A i \in RunIds : [](Len(payoutRuns) >= i
                           => <>(Len(payoutRuns) >= i /\ payoutRuns[i].status = "finalized"))


\* ---------------------------------- Claims about the order of ingestion
\* an event by what identifies it across databases: the file its Source File
\* records (path and digest), its row, and its business fields
Identified(e, sfs) ==
  [file |-> <<sfs[e.source_file].path, sfs[e.source_file].sha256>>,
   row |-> e.row_hash[3],
   occurred_at |-> e.occurred_at, platform |-> e.platform, currency |-> e.currency,
   product_type |-> e.product_type, quantity |-> e.quantity,
   gross_amount |-> e.gross_amount, net_amount |-> e.net_amount,
   net_amount_base |-> e.net_amount_base, base_ccy |-> e.base_ccy]

\* the total of every quarter of the year of the statements
QuarterTotals(evs) == [q \in 1..4 |-> SumNet(PeriodEvents(evs, 2024, q))]

\* two statements of different vendors are in the tree, registered and normalized
BothNormalized ==
  /\ \A f \in {BandcampFileId} : disk[f] # NoFile
  /\ \E f \in DistFileIds : disk[f] # NoFile
  /\ ~PendingIngest
  /\ normReport # <<>>

\* C24: ingestion of independent files is commutative: whichever of two
\* statements was registered and normalized first (or both together), the
\* Revenue Events are the same (same file, row and business fields) and so are
\* the totals of every period.
C24_IngestionCommutes ==
  BothNormalized =>
    /\ {Identified(e, sourceFiles) : e \in events}
         = {Identified(e, BandcampFirst(disk).second.sourceFiles) :
              e \in BandcampFirstEvents(disk)}
    /\ QuarterTotals(events) = QuarterTotals(BandcampFirstEvents(disk))

\* the distribution statement went first, in a run of its own
C24_Witness ==
  /\ BothNormalized
  /\ Len(batches) = 2
  /\ sourceFiles[1].datasource = "distribution"
  /\ \E e \in events : e.platform = "Bandcamp"
  /\ \E e \in events : e.platform = "Distribution"


\* --------------------------------------------- Claims about payout amounts
\* the quarter a date is in, by its month
QuarterOf(d) == <<d[1], ((d[2] - 1) \div 3) + 1>>

YearQuarters == {<<y, q>> : y \in 2023..2026, q \in 1..4}

\* per (platform, currency) of the events of the quarter: the net total and
\* the default rate times that total
QuarterGroups(year, quarter) ==
  LET sel == {e \in events : QuarterOf(e.occurred_at) = <<year, quarter>>}
      Of(k) == {e \in sel : e.platform = k[1] /\ e.currency = k[2]}
  IN  {[platform |-> k[1], currency |-> k[2], total_revenue |-> SumNet(Of(k)),
        artist_payout |-> DefaultRatePercent * SumNet(Of(k))]
       : k \in {<<e.platform, e.currency>> : e \in sel}}

Reported(calc) ==
  {[platform |-> d.platform, currency |-> d.currency, total_revenue |-> d.total_revenue,
    artist_payout |-> d.artist_payout] : d \in calc}

Captured(report) ==
  \A w \in Windows : \A i \in 1..Len(report[w]) :
    \E k \in 1..Len(rawBandcamp) : rawBandcamp[k] = RawOf(report[w][i], w)

\* the Bandcamp totals a warehouse build reports over a raw capture
BandcampTotals(raw) ==
  Totals(BandcampFacts(raw, [usd |-> FallbackRate("USD"), eur |-> FallbackRate("EUR")]))

\* C26: the Bandcamp API ingest upserts: run again over the same date range
\* (the same sales returned), it leaves the number of rows of
\* raw.bandcamp_event_raw unchanged, so a following warehouse rebuild reports
\* the same Bandcamp totals.
C26_ApiIngestUpserts ==
  [][\A report \in ApiReports : \A failing \in SUBSET Windows :
       (Captured(report) /\ IngestBandcampApi(report, failing)) =>
          /\ Len(rawBandcamp') = Len(rawBandcamp)
          /\ BandcampTotals(rawBandcamp') = BandcampTotals(rawBandcamp)]_vars


\* ------------------------------------------------ Claims about provenance
\* the canonical rows of the file whose digest the Source File records
OwnRows(sf) ==
  IF sf.datasource = "bandcamp" THEN BuildCanonicalBandcamp(sf.sha256[2])
  ELSE BuildCanonicalDistribution(sf.sha256[2], ~NameInfo(sf.path).conv)

\* the row the event was made of is a row of the file of its Source File
FromOwnFile(e) ==
  \E i \in 1..Len(OwnRows(sourceFiles[e.source_file])) :
    OwnRows(sourceFiles[e.source_file])[i] = e.row_hash[3]

\* C27: provenance: every event's field values come from a row of the file
\* whose content hash is recorded on the event's Source File; once a corrected
\* file of the same group is canonicalized and registered, a later
\* normalization creates no event attributed to the superseded Source File
\* from the correcting file's content.
C27_Provenance == \A e \in events : FromOwnFile(e)


\* -------------------------------------- Claims about the payout transaction
\* the groups of the period of a run
GroupsOfRun(r) ==
  CalculatePayouts(PeriodEvents(events, payoutRuns[r].period_year,
                                payoutRuns[r].period_quarter), DefaultRatePercent)

\* the last invocation was left by an exception of create_payout_lines
PayoutFailed ==
  /\ payoutOut # <<>>
  /\ payoutOut[1].raised
  /\ payoutOut[1].label \in Labels
  /\ ParsePeriod(payoutOut[1].period).ok

\* C28: creating a Payout Run and its lines is atomic: when the creation of a
\* line (or of the placeholder artist) fails, no run stays persisted and a later
\* request for the period is not rejected as a duplicate; a persisted run
\* always has one line per (platform, currency) group.
C28_PayoutRunAtomic ==
  /\ [][\A label_name \in LabelArgs : \A period \in PeriodArgs :
          FinancesPayoutFails(label_name, period) =>
            /\ payoutRuns' = payoutRuns
            /\ payoutLines' = payoutLines]_vars
  /\ [](PayoutFailed =>
          ExistingPayout(payoutRuns, ParsePeriod(payoutOut[1].period).year,
                         ParsePeriod(payoutOut[1].period).quarter) = NoRef)
  /\ [](\A r \in 1..Len(payoutRuns) :
          /\ Cardinality(LinesOf(r)) = Cardinality(GroupsOfRun(r))
          /\ \A g \in GroupsOfRun(r) : \E k \in LinesOf(r) :
               /\ payoutLines[k].amount_base = g.artist_payout
               /\ payoutLines[k].original_currency = g.currency)

\* a request failed over a period of two groups or more, after the run of
\* another period was saved
C28_Witness ==
  /\ PayoutFailed
  /\ Cardinality(payoutOut[1].summary) >= 2
  /\ payoutRuns # <<>>
  /\ \A r \in 1..Len(payoutRuns) :
       payoutRuns[r].period_quarter # ParsePeriod(payoutOut[1].period).quarter


\* ------------------------------------------ Claims about the import batch
\* C29: import batch lifecycle: a batch that is 'completed' has finished
\* successfully (finished_at is set and the events its run reported are
\* committed); a batch whose normalization raised or was cut short ends
\* 'failed' with finished_at set and none of its events persisted.
C29_BatchLifecycle ==
  [][Len(batches') = Len(batches) + 1 =>
       LET b == batches'[Len(batches')]
           report == normReport'[1]
       IN  /\ b.status = "completed" =>
                /\ b.finished
                /\ ~report.failed
                /\ \A i \in 1..Len(report.files) :
                     Cardinality({e \in events' : e.source_file = report.files[i].source_file})
                       >= report.files[i].records
           /\ report.failed =>
                /\ b.status = "failed"
                /\ b.finished
                /\ events' = events]_vars


\* ------------------------------------------- Claims about the candidates
\* the files of the tree whose name gives the period and the type of the group
InGroup(g) ==
  {f \in TreeFileIds : disk[f] # NoFile /\ NameInfo(f).period = g[1] /\ NameInfo(f).kind = g[2]}

\* (is a correction larger than 10,000 bytes, byte size, is converted), as numbers
Rank(f) ==
  <<IF NameInfo(f).corr /\ Bytes(RowsOf(disk[f])) > 10000 THEN 1 ELSE 0,
    Bytes(RowsOf(disk[f])),
    IF NameInfo(f).conv THEN 1 ELSE 0>>

\* a is not below b in the order of the triples
NotBelow(a, b) ==
  \/ a = b
  \/ a[1] > b[1]
  \/ a[1] = b[1] /\ a[2] > b[2]
  \/ a[1] = b[1] /\ a[2] = b[2] /\ a[3] > b[3]

\* the entries one run appended to the sidecar of a period
Appended(p) == SubSeq(metaDist'[p], Len(metaDist[p]) + 1, Len(metaDist'[p]))

\* C30: in one ingest_distribution run, every (year, quarter, statement type)
\* group of candidates has exactly one file canonicalized and exactly one
\* metadata entry appended; the chosen file is the maximum by (is a correction
\* larger than 10,000 bytes, byte size, is converted), the canonical output of
\* the group is derived from the chosen file only, and a file whose name gives
\* no period or no statement type is in no group.
C30_OneChosenPerGroup ==
  [][FinancesIngest =>
       /\ \A p \in Periods :
            /\ SubSeq(metaDist'[p], 1, Len(metaDist[p])) = metaDist[p]
            /\ Len(Appended(p)) = Cardinality({g \in Groups : g[1] = p /\ InGroup(g) # {}})
       /\ \A g \in Groups :
            IF InGroup(g) = {} THEN canonDist'[g] = canonDist[g]
            ELSE \E f \in InGroup(g) :
                   /\ \A h \in InGroup(g) : NotBelow(Rank(f), Rank(h))
                   /\ canonDist'[g]
                        = File(BuildCanonicalDistribution(RowsOf(disk[f]), ~NameInfo(f).conv))
                   /\ Cardinality({i \in 1..Len(Appended(g[1])) :
                                     Appended(g[1])[i].statement_type = g[2]}) = 1
                   /\ \A i \in 1..Len(Appended(g[1])) :
                        Appended(g[1])[i].statement_type = g[2] =>
                          /\ Appended(g[1])[i].path = f
                          /\ Appended(g[1])[i].sha256 = ComputeSha256(RowsOf(disk[f]))
       /\ \A f \in TreeFileIds :
            (NameInfo(f).period = <<>> \/ NameInfo(f).kind = "none") =>
               \A p \in Periods : \A i \in 1..Len(Appended(p)) : Appended(p)[i].path # f]_vars

\* a run over a tree with an encoding statement and three royalty candidates,
\* among them a correction too small to be preferred, and a file without period
C30_Witness ==
  /\ disk["ZEB_TK_2024-Q1.csv"] # NoFile
  /\ disk["ZEB_RS_2024-Q1.csv"] # NoFile
  /\ disk["ZEB_RS_2024-Q1__converted.csv"] # NoFile
  /\ disk["ZEB_RS_2024-Q1_correction.csv"] # NoFile
  /\ Bytes(RowsOf(disk["ZEB_RS_2024-Q1_correction.csv"])) < 10000
  /\ disk["ZEB_RS_latest.csv"] # NoFile
  /\ Len(metaDist[<<2024, 1>>]) = 2
  /\ canonDist[<<<<2024, 1>>, "royalty">>] # NoFile
  /\ canonDist[<<<<2024, 1>>, "encoding">>] # NoFile

====
